---- MODULE Spec2Model ----
(***************************************************************************)
(* BNFParserlib: tokenizer, grammar builder, FIRST-set analyser and        *)
(* recursive-descent matcher.  Bytes are integers 0..255, strings are      *)
(* sequences of bytes, positions are 0-based as in the C++ source.         *)
(***************************************************************************)
EXTENDS Integers, Sequences, FiniteSets, TLC

\* ------------------------------------------------------------------------
\* Bytes and strings
\* ------------------------------------------------------------------------

\* ASCII codes of the characters used in rule texts and inputs.
Ascii ==
    (" " :> 32) @@ ("\"" :> 34) @@ ("#" :> 35) @@ ("'" :> 39) @@ ("(" :> 40) @@ (")" :> 41)
    @@ ("-" :> 45) @@ ("." :> 46) @@ ("/" :> 47)
    @@ ("0" :> 48) @@ ("1" :> 49) @@ ("4" :> 52) @@ ("6" :> 54) @@ ("9" :> 57)
    @@ (":" :> 58) @@ ("<" :> 60) @@ ("=" :> 61) @@ (">" :> 62)
    @@ ("A" :> 65) @@ ("B" :> 66) @@ ("C" :> 67) @@ ("E" :> 69) @@ ("G" :> 71)
    @@ ("I" :> 73) @@ ("N" :> 78) @@ ("O" :> 79) @@ ("P" :> 80) @@ ("R" :> 82)
    @@ ("S" :> 83) @@ ("T" :> 84) @@ ("X" :> 88)
    @@ ("[" :> 91) @@ ("]" :> 93) @@ ("^" :> 94)
    @@ ("a" :> 97) @@ ("b" :> 98) @@ ("c" :> 99) @@ ("d" :> 100) @@ ("e" :> 101)
    @@ ("f" :> 102) @@ ("g" :> 103) @@ ("h" :> 104) @@ ("i" :> 105) @@ ("j" :> 106)
    @@ ("k" :> 107) @@ ("l" :> 108) @@ ("m" :> 109) @@ ("n" :> 110) @@ ("o" :> 111) @@ ("p" :> 112) @@ ("q" :> 113) @@ ("r" :> 114) @@ ("s" :> 115)
    @@ ("t" :> 116) @@ ("u" :> 117) @@ ("v" :> 118) @@ ("w" :> 119) @@ ("x" :> 120) @@ ("y" :> 121) @@ ("z" :> 122)
    @@ ("{" :> 123) @@ ("|" :> 124) @@ ("}" :> 125)

\* The byte string spelled by a sequence of one-character strings.
Str(cs) == [i \in 1..Len(cs) |-> Ascii[cs[i]]]

\* std::string::substr(start, len) with 0-based start.
Substr(s, start, len) == [i \in 1..len |-> s[start + i]]

\* s[pos] with 0-based pos.
At(s, pos) == s[pos + 1]

\* ------------------------------------------------------------------------
\* Tokenizer (BNFTokenizer.cpp)
\* ------------------------------------------------------------------------

Token(t, v) == [type |-> t, value |-> v]

RECURSIVE skipSpaces(_, _)
skipSpaces(text, pos) ==
    IF pos < Len(text) /\ At(text, pos) \in {32, 9}
    THEN skipSpaces(text, pos + 1)
    ELSE pos

\* C isspace() in the "C" locale.
isspace(c) == c \in {32, 9, 10, 11, 12, 13}

\* C isxdigit().
isxdigit(c) == c \in (48..57) \cup (65..70) \cup (97..102)

\* First position at or after pos holding a byte of stopSet, or Len(text).
RECURSIVE ScanUntil(_, _, _)
ScanUntil(text, pos, stopSet) ==
    IF pos < Len(text) /\ At(text, pos) \notin stopSet
    THEN ScanUntil(text, pos + 1, stopSet)
    ELSE pos

TokParseSymbol(text, pos) ==
    LET start == pos
        stop  == ScanUntil(text, pos + 1, {62})
        endp  == IF stop < Len(text) THEN stop + 1 ELSE stop
    IN  [tok |-> Token("TOK_SYMBOL", Substr(text, start, endp - start)), pos |-> endp]

TokParseTerminal(text, pos) ==
    LET quote == At(text, pos)
        start == pos + 1
        stop  == ScanUntil(text, start, {quote})
        val   == Substr(text, start, stop - start)
        endp  == IF stop < Len(text) THEN stop + 1 ELSE stop
    IN  [tok |-> Token("TOK_TERMINAL", val), pos |-> endp]

\* A word scan that runs over dots.
TokParseWord_NoDot(text, pos) ==
    LET start == pos
        stop  == ScanUntil(text, pos,
                     {c \in 0..255 : isspace(c)} \cup {124, 123, 125, 91, 93, 40, 41, 94})
    IN  [tok |-> Token("TOK_WORD", Substr(text, start, stop - start)), pos |-> stop]

TokParseWord(text, pos) ==
    LET start == pos
        stop  == ScanUntil(text, pos,
                     {c \in 0..255 : isspace(c)} \cup {124, 123, 125, 91, 93, 40, 41, 94, 46})
    IN  [tok |-> Token("TOK_WORD", Substr(text, start, stop - start)), pos |-> stop]

TokParseHex(text, pos) ==
    LET start == pos
        stop  == ScanUntil(text, pos + 2, {c \in 0..255 : ~isxdigit(c)})
    IN  [tok |-> Token("TOK_HEX", Substr(text, start, stop - start)), pos |-> stop]

isEllipsis(text, pos) ==
    /\ pos + 2 < Len(text)
    /\ At(text, pos) = 46
    /\ At(text, pos + 1) = 46
    /\ At(text, pos + 2) = 46

\* The dispatch of BNFTokenizer::next on the byte at cursor pos, after
\* skipSpaces.
TokDispatch(text, pos) ==
    LET c == At(text, pos)
        One(t) == [tok |-> Token(t, <<c>>), pos |-> pos + 1]
    IN  IF c = 60 THEN TokParseSymbol(text, pos)
        ELSE IF c = 39 \/ c = 34 THEN TokParseTerminal(text, pos)
        ELSE IF c = 46 /\ isEllipsis(text, pos)
             THEN [tok |-> Token("TOK_ELLIPSIS", <<46, 46, 46>>), pos |-> pos + 3]
        ELSE IF c = 48 /\ pos + 1 < Len(text) /\ At(text, pos + 1) \in {120, 88}
             THEN TokParseHex(text, pos)
        ELSE IF c = 123 THEN One("TOK_LBRACE")
        ELSE IF c = 125 THEN One("TOK_RBRACE")
        ELSE IF c = 91 THEN One("TOK_LBRACKET")
        ELSE IF c = 93 THEN One("TOK_RBRACKET")
        ELSE IF c = 40 THEN One("TOK_LPAREN")
        ELSE IF c = 41 THEN One("TOK_RPAREN")
        ELSE IF c = 94 THEN One("TOK_CARET")
        ELSE IF c = 124 THEN One("TOK_PIPE")
        ELSE TokParseWord(text, pos)

\* The token at cursor pos, spaces skipped, and the cursor after it.
TokAt(text, pos) ==
    IF pos >= Len(text) THEN [tok |-> Token("TOK_END", <<>>), pos |-> pos]
    ELSE TokDispatch(text, pos)

\* BNFTokenizer::next: the token read at cursor pos0 and the cursor after it.
TokNext(text, pos0) == TokAt(text, skipSpaces(text, pos0))

\* BNFTokenizer::peek: next() with the cursor restored.
TokPeek(text, pos) == TokNext(text, pos).tok

\* ------------------------------------------------------------------------
\* Expression trees (Expression.hpp) and the grammar builder (Grammar.cpp)
\* ------------------------------------------------------------------------

\* An Expression node with every field of struct Expression.  In a tree
\* value the children are trees; in the heap they are addresses.
Expr(t, v, ch, s, e, bm) ==
    [type |-> t, value |-> v, children |-> ch, start |-> s, end |-> e, charBitmap |-> bm]

\* The null Expression pointer as a tree value.
NullExpr == Expr("NULL", <<>>, <<>>, 0, 0, {})

\* Result of a builder function: the tree built (NullExpr for NULL), the
\* tokenizer cursor afterwards, and whether the function never returns.
Built(e, pos) == [e |-> e, pos |-> pos, hang |-> FALSE]
Hung(pos) == [e |-> NullExpr, pos |-> pos, hang |-> TRUE]

HexDigit(c) == IF c \in 48..57 THEN c - 48 ELSE IF c \in 65..70 THEN c - 55 ELSE c - 87

\* operator>> of an unsigned int in std::hex mode, reduced to the low byte
\* the caller keeps: the leading hex digits of s are read; no digit gives
\* 0, more than eight significant digits overflow to UINT_MAX (low byte
\* 255).  low is the value so far modulo 256, sig counts significant digits.
RECURSIVE HexVal(_, _, _, _)
HexVal(s, i, low, sig) ==
    IF i <= Len(s) /\ isxdigit(s[i])
    THEN HexVal(s, i + 1, (low * 16 + HexDigit(s[i])) % 256,
                IF sig = 0 /\ HexDigit(s[i]) = 0 THEN 0 ELSE sig + 1)
    ELSE IF sig > 8 THEN 255 ELSE low

tokenToChar(t) ==
    IF t.type = "TOK_TERMINAL"
    THEN IF t.value = <<>> THEN 0 ELSE t.value[1]
    ELSE IF t.type = "TOK_HEX"
    THEN HexVal(Substr(t.value, 2, Len(t.value) - 2), 1, 0, 0)
    ELSE 0

\* A lower bound that takes the first bound as written.
Lo_First(a, b) == a

Lo(a, b) == IF a <= b THEN a ELSE b
Hi(a, b) == IF a <= b THEN b ELSE a

RECURSIVE CharClassLoop(_, _, _, _)

\* Grammar::parseCharClass after `start ... `: endTok is the token read as
\* the end of the range and the cursor after it.
CharClassRange(text, bitmap, isExclusion, start, endTok) ==
    IF endTok.tok.type \notin {"TOK_TERMINAL", "TOK_HEX"}
    THEN Built(NullExpr, endTok.pos)
    ELSE CharClassLoop(text, endTok.pos,
                       bitmap \cup (Lo(start, tokenToChar(endTok.tok))
                                      .. Hi(start, tokenToChar(endTok.tok))),
                       isExclusion)

\* One turn of the loop of Grammar::parseCharClass: n1 is the token at the
\* cursor pos and the cursor after it.
CharClassStep(text, pos, bitmap, isExclusion, n1) ==
    IF n1.tok.type = "TOK_RPAREN"
    THEN Built(Expr("EXPR_CHAR_CLASS", <<>>, <<>>, 0, 0,
                    IF isExclusion THEN (0..255) \ bitmap ELSE bitmap), n1.pos)
    ELSE IF n1.tok.type = "TOK_END" THEN Built(NullExpr, pos)
    ELSE IF n1.tok.type \in {"TOK_TERMINAL", "TOK_HEX"}
    THEN IF TokPeek(text, n1.pos).type = "TOK_ELLIPSIS"
         THEN CharClassRange(text, bitmap, isExclusion, tokenToChar(n1.tok),
                             TokNext(text, TokNext(text, n1.pos).pos))
         ELSE CharClassLoop(text, n1.pos, bitmap \cup {tokenToChar(n1.tok)}, isExclusion)
    ELSE Built(NullExpr, pos)

\* The loop of Grammar::parseCharClass after the optional caret.
CharClassLoop(text, pos, bitmap, isExclusion) ==
    CharClassStep(text, pos, bitmap, isExclusion, TokNext(text, pos))

GrammarParseCharClass(text, pos) ==
    LET isExclusion == TokPeek(text, pos).type = "TOK_CARET"
    IN  CharClassLoop(text, IF isExclusion THEN TokNext(text, pos).pos ELSE pos,
                      {}, isExclusion)

\* Grammar::parseFactor after `t ... `: endTok is the token read as the end
\* of the range and the cursor after it.
FactorRange(t, endTok) ==
    IF endTok.tok.type \notin {"TOK_TERMINAL", "TOK_HEX"}
    THEN Built(NullExpr, endTok.pos)
    ELSE Built(Expr("EXPR_CHAR_RANGE", <<>>, <<>>,
                    tokenToChar(t), tokenToChar(endTok.tok), {}), endTok.pos)

\* Grammar::parseFactor after its first tz.next(): n1 is the token read
\* and the cursor after it.
FactorOf(text, n1) ==
    IF n1.tok.type = "TOK_LPAREN" THEN GrammarParseCharClass(text, n1.pos)
    ELSE IF n1.tok.type \in {"TOK_TERMINAL", "TOK_HEX"}
    THEN IF TokPeek(text, n1.pos).type = "TOK_ELLIPSIS"
         THEN FactorRange(n1.tok, TokNext(text, TokNext(text, n1.pos).pos))
         ELSE Built(Expr("EXPR_TERMINAL", n1.tok.value, <<>>, 0, 0, {}), n1.pos)
    ELSE IF n1.tok.type = "TOK_SYMBOL"
    THEN Built(Expr("EXPR_SYMBOL", n1.tok.value, <<>>, 0, 0, {}), n1.pos)
    ELSE IF n1.tok.type = "TOK_WORD"
    THEN Built(Expr("EXPR_TERMINAL", n1.tok.value, <<>>, 0, 0, {}), n1.pos)
    ELSE Built(NullExpr, n1.pos)

GrammarParseFactor(text, pos) == FactorOf(text, TokNext(text, pos))

RECURSIVE GrammarParseExpression(_, _)
RECURSIVE GrammarParseSequence(_, _, _)
RECURSIVE GrammarParseTerm(_, _)
RECURSIVE AltLoop(_, _, _)

\* Grammar::parseExpression after its first parseSequence returned left.
ExpressionAfter(text, left) ==
    IF left.hang THEN left
    ELSE IF TokPeek(text, left.pos).type # "TOK_PIPE" THEN left
    ELSE AltLoop(text, left.pos, <<left.e>>)

\* Grammar::parseExpression: sequences separated by '|'.
GrammarParseExpression(text, pos) ==
    ExpressionAfter(text, GrammarParseSequence(text, pos, <<>>))

\* One turn of the while loop of Grammar::parseExpression, after
\* parseSequence returned right.
AltPush(text, alt, right) ==
    IF right.hang THEN right
    ELSE AltLoop(text, right.pos, Append(alt, right.e))

\* The while loop of Grammar::parseExpression; alt holds the children so far.
AltLoop(text, pos, alt) ==
    IF TokPeek(text, pos).type = "TOK_PIPE"
    THEN AltPush(text, alt, GrammarParseSequence(text, TokNext(text, pos).pos, <<>>))
    ELSE IF Len(alt) = 1 THEN Built(alt[1], pos)
    ELSE Built(Expr("EXPR_ALTERNATIVE", <<>>, alt, 0, 0, {}), pos)

\* One turn of the loop of Grammar::parseSequence, after parseTerm returned
\* term.  A term read without moving the cursor is read again for ever.
SequencePush(text, pos, children, term) ==
    IF term.hang \/ term.pos = pos THEN Hung(pos)
    ELSE GrammarParseSequence(text, term.pos,
             IF term.e # NullExpr THEN Append(children, term.e) ELSE children)

\* Grammar::parseSequence; children holds the terms read so far.
GrammarParseSequence(text, pos, children) ==
    IF TokPeek(text, pos).type \in {"TOK_END", "TOK_PIPE", "TOK_RBRACE", "TOK_RBRACKET"}
    THEN IF children = <<>> THEN Built(NullExpr, pos)
         ELSE IF Len(children) = 1 THEN Built(children[1], pos)
         ELSE Built(Expr("EXPR_SEQUENCE", <<>>, children, 0, 0, {}), pos)
    ELSE SequencePush(text, pos, children, GrammarParseTerm(text, pos))

\* Grammar::parseTerm after parseExpression returned inside: the closing
\* token is consumed whatever it is, and the node of the given type built.
TermGroup(type, text, inside) ==
    IF inside.hang THEN inside
    ELSE Built(Expr(type, <<>>, <<inside.e>>, 0, 0, {}), TokNext(text, inside.pos).pos)

\* A parseTerm that builds a Repeat for either bracket.
GroupType_Repeat(t) == "EXPR_REPEAT"

\* The node type Grammar::parseTerm builds for an opening token.
GroupType(t) == IF t.type = "TOK_LBRACE" THEN "EXPR_REPEAT" ELSE "EXPR_OPTIONAL"

\* Grammar::parseTerm: '{ ... }' and '[ ... ]'.
GrammarParseTerm(text, pos) ==
    IF TokPeek(text, pos).type \in {"TOK_LBRACE", "TOK_LBRACKET"}
    THEN TermGroup(GroupType(TokPeek(text, pos)), text,
                   GrammarParseExpression(text, TokNext(text, pos).pos))
    ELSE GrammarParseFactor(text, pos)

\* std::string::find("::="): the 0-based index of the first occurrence, -1 for npos.
FindSep(text) ==
    LET hits == {i \in 0..(Len(text) - 3) :
                    At(text, i) = 58 /\ At(text, i + 1) = 58 /\ At(text, i + 2) = 61}
    IN  IF hits = {} THEN -1 ELSE CHOOSE i \in hits : \A j \in hits : i <= j

\* The two trimming loops of Grammar::addRule (spaces only).
RECURSIVE TrimLeft(_)
TrimLeft(s) == IF s # <<>> /\ s[1] = 32 THEN TrimLeft(Tail(s)) ELSE s
RECURSIVE TrimRight(_)
TrimRight(s) == IF s # <<>> /\ s[Len(s)] = 32 THEN TrimRight(SubSeq(s, 1, Len(s) - 1)) ELSE s

\* ------------------------------------------------------------------------
\* Program state
\* ------------------------------------------------------------------------

VARIABLES
    heap,        \* the Expression objects allocated so far, by address 1..Len(heap)
    rules,       \* Grammar::rules, in insertion order
    interner,    \* the ExpressionInterner attached to the grammar, if any
    firstCache,  \* BNFParser::firstCache
    consumed,    \* the caller's size_t passed to the legacy parse
    legacyAst,   \* the tree the last legacy parse returned
    ctx,         \* the caller's ParseContext passed to the unified parse
    call,        \* the last public call made and its arguments
    obs,         \* what was observed of the matcher during the last parse
    pc,          \* "ready", or how the program stopped
    diag,        \* the `Invalid rule` line the last addRule wrote to std::cerr
    tz,          \* a BNFTokenizer object and what its last call returned
    arena        \* an Arena object, and the regions it returned since its last reset

vars == <<heap, rules, interner, firstCache, consumed, legacyAst, ctx, call, obs, pc, diag, tz, arena>>

\* ------------------------------------------------------------------------
\* Grammar: allocation, interning, addRule, getRule
\* ------------------------------------------------------------------------

\* Result of storing a tree: the heap and interner table afterwards and the
\* address of the root (0 for NULL).
Stored(h, tbl, a) == [heap |-> h, table |-> tbl, addr |-> a]

\* ExpressionInterner probe: the installed address of an expression
\* structurally equal to node (same tag, value, range, bitmap and child
\* addresses), 0 when there is none.
\* An interner that never finds an installed expression.
Intern_Miss(h, tbl, node) == 0

Intern(h, tbl, node) ==
    LET same == {a \in tbl : h[a] = node}
    IN  IF same = {} THEN 0 ELSE CHOOSE a \in same : TRUE

RECURSIVE Alloc(_, _, _, _)
RECURSIVE AllocChildren(_, _, _, _, _, _)

\* new Expression for every node of tree, children first.  With an interner
\* attached, a node equal to an installed one is replaced by the installed
\* address, and any other node is installed.
Alloc(h, tbl, attached, tree) ==
    IF tree = NullExpr THEN Stored(h, tbl, 0)
    ELSE LET kids == AllocChildren(h, tbl, attached, tree.children, 1, <<>>)
             node == [tree EXCEPT !.children = kids.addr]
             old  == Intern(kids.heap, kids.table, node)
         IN  IF attached /\ old # 0
             THEN Stored(kids.heap, kids.table, old)
             ELSE Stored(Append(kids.heap, node),
                         IF attached THEN kids.table \cup {Len(kids.heap) + 1} ELSE kids.table,
                         Len(kids.heap) + 1)

AllocChildren(h, tbl, attached, children, i, acc) ==
    IF i > Len(children) THEN Stored(h, tbl, acc)
    ELSE LET one == Alloc(h, tbl, attached, children[i])
         IN  AllocChildren(one.heap, one.table, attached, children, i + 1, Append(acc, one.addr))

\* A lookup that answers with the latest rule of this name.
getRule_Last(rs, name) ==
    LET hits == {i \in 1..Len(rs) : rs[i].name = name}
    IN  IF hits = {} THEN 0 ELSE CHOOSE i \in hits : \A j \in hits : i >= j

\* Grammar::getRule: index of the first rule with this name, 0 when absent.
getRule(rs, name) ==
    LET hits == {i \in 1..Len(rs) : rs[i].name = name}
    IN  IF hits = {} THEN 0 ELSE CHOOSE i \in hits : \A j \in hits : i <= j

\* ------------------------------------------------------------------------
\* FIRST sets (BNFParser::computeFirst)
\* ------------------------------------------------------------------------

FirstInfo(chars, nullable) == [chars |-> chars, nullable |-> nullable]

mergeFirst(dst, src) == FirstInfo(dst.chars \cup src.chars, dst.nullable \/ src.nullable)

stripQuotes(s) ==
    IF Len(s) >= 2 /\ ((s[1] = 39 /\ s[Len(s)] = 39) \/ (s[1] = 34 /\ s[Len(s)] = 34))
    THEN Substr(s, 1, Len(s) - 2)
    ELSE s

\* Result of computeFirst: the memo afterwards, the FirstInfo returned, and
\* whether the call crashed instead of returning (null dereference, or
\* unbounded recursion).
FirstOk(cache, fi) == [cache |-> cache, fi |-> fi, crash |-> FALSE]
FirstCrash(cache) == [cache |-> cache, fi |-> FirstInfo({}, FALSE), crash |-> TRUE]

Insert(cache, expr, fi) == IF expr \in DOMAIN cache THEN cache ELSE cache @@ (expr :> fi)

RECURSIVE computeFirst(_, _, _)
RECURSIVE FirstSeqLoop(_, _, _, _, _)
RECURSIVE FirstAltLoop(_, _, _, _, _)

\* computeFirst(expr) started with memo cache; visiting holds the
\* expressions whose computeFirst call is on the stack.  The memo entry of
\* expr is written only when its call returns, so a call that reaches expr
\* again repeats itself without end.
computeFirst(expr, cache, visiting) ==
    IF expr \in DOMAIN cache THEN FirstOk(cache, cache[expr])
    ELSE IF expr = 0 \/ expr \in visiting THEN FirstCrash(cache)
    ELSE
    LET e    == heap[expr]
        vis  == visiting \cup {expr}
        done(r) == IF r.crash THEN r ELSE FirstOk(Insert(r.cache, expr, r.fi), r.fi)
    IN  CASE e.type = "EXPR_TERMINAL" ->
                LET lit == stripQuotes(e.value)
                IN  done(FirstOk(cache, IF lit # <<>> THEN FirstInfo({lit[1]}, FALSE)
                                                     ELSE FirstInfo({}, TRUE)))
          [] e.type = "EXPR_SYMBOL" ->
                LET rr == getRule(rules, e.value)
                IN  IF rr # 0 /\ rules[rr].rootExpr # 0
                    THEN done(computeFirst(rules[rr].rootExpr, cache, vis))
                    ELSE done(FirstOk(cache, FirstInfo({}, FALSE)))
          [] e.type = "EXPR_SEQUENCE" ->
                done(FirstSeqLoop(e.children, 1, FirstInfo({}, TRUE), cache, vis))
          [] e.type = "EXPR_ALTERNATIVE" ->
                done(FirstAltLoop(e.children, 1, FirstInfo({}, FALSE), cache, vis))
          [] e.type \in {"EXPR_OPTIONAL", "EXPR_REPEAT"} ->
                IF e.children # <<>>
                THEN LET r == computeFirst(e.children[1], cache, vis)
                     IN  IF r.crash THEN r
                         ELSE done(FirstOk(r.cache, mergeFirst(FirstInfo({}, TRUE), r.fi)))
                ELSE done(FirstOk(cache, FirstInfo({}, TRUE)))
          [] e.type = "EXPR_CHAR_RANGE" ->
                done(FirstOk(cache, FirstInfo(e.start..e.end, FALSE)))
          [] e.type = "EXPR_CHAR_CLASS" ->
                done(FirstOk(cache, FirstInfo(e.charBitmap, FALSE)))

\* The EXPR_SEQUENCE loop: merge children up to the first non-nullable one.
FirstSeqLoop(children, i, fi, cache, vis) ==
    IF i > Len(children) THEN FirstOk(cache, fi)
    ELSE LET r == computeFirst(children[i], cache, vis)
             m == mergeFirst(fi, r.fi)
         IN  IF r.crash THEN r
             ELSE IF ~r.fi.nullable THEN FirstOk(r.cache, FirstInfo(m.chars, FALSE))
             ELSE FirstSeqLoop(children, i + 1, m, r.cache, vis)

\* The EXPR_ALTERNATIVE loop: merge every child.
FirstAltLoop(children, i, fi, cache, vis) ==
    IF i > Len(children) THEN FirstOk(cache, fi)
    ELSE LET r == computeFirst(children[i], cache, vis)
         IN  IF r.crash THEN r
             ELSE FirstAltLoop(children, i + 1, mergeFirst(fi, r.fi), r.cache, vis)

\* ------------------------------------------------------------------------
\* Parse trees and the parse context
\* ------------------------------------------------------------------------

\* An ASTNode; NoNode is the null ASTNode pointer.
Node(sym, m, ch) == [null |-> FALSE, symbol |-> sym, matched |-> m, children |-> ch]
NoNode == [null |-> TRUE, symbol |-> <<>>, matched |-> <<>>, children |-> <<>>]

\* A newly constructed ParseContext.
ResetCtx ==
    [success |-> FALSE, ast |-> NoNode, consumed |-> 0, errorPos |-> 0, expected |-> <<>>,
     partialNodes |-> <<>>, failures |-> <<>>]

\* ParseContext::reset(): every field back to its constructed value.
reset(c) == ResetCtx

FailedNode(pos, text, expected, kind) ==
    [pos |-> pos, text |-> text, expected |-> expected, kind |-> kind]

\* What is observed of one run of the matcher, besides its outputs:
\*   errTrace     ctx.errorPos after each updateError call, in call order
\*   repOver      some Repeat kept more iterations than bytes were left
\*   repEmpty     some Repeat stopped on an empty match of its child
\*   altShort     some Alternative committed to an end position below the
\*                end position of one of its branches
\*   altSkipOk    some Alternative skipped a branch that matches there
NoObs == [errTrace |-> <<>>, repOver |-> FALSE, repEmpty |-> FALSE,
          altShort |-> FALSE, altSkipOk |-> FALSE]

\* The state threaded through one run of the matcher: whether a context
\* was passed (ctx != 0), whether parseAlternative prunes by FIRST sets,
\* the context, the FIRST memo and the observations.
MatchState(hasCtx, prune, c, cache) ==
    [hasCtx |-> hasCtx, prune |-> prune, ctx |-> c, cache |-> cache, obs |-> NoObs]

\* ParseContext::updateError, guarded by `if (ctx)`: keep the furthest
\* position and the first description recorded there.
\* A context that records every report, whatever its position.
updateError_Last(st, pos, desc) ==
    IF ~st.hasCtx THEN st
    ELSE LET c == [st.ctx EXCEPT !.errorPos = pos, !.expected = desc]
         IN  [st EXCEPT !.ctx = c, !.obs.errTrace = Append(@, c.errorPos)]

updateError(st, pos, desc) ==
    IF ~st.hasCtx THEN st
    ELSE LET c == IF pos > st.ctx.errorPos \/ st.ctx.expected = <<>>
                  THEN [st.ctx EXCEPT !.errorPos = pos, !.expected = desc]
                  ELSE st.ctx
         IN  [st EXCEPT !.ctx = c, !.obs.errTrace = Append(@, c.errorPos)]

\* Outcome of a matcher function: status "ok" (returned true), "fail"
\* (returned false), "crash" (null dereference or stack exhaustion) or
\* "hang" (a loop that never ends); the input position and out-node
\* afterwards; the threaded state.
Ok(pos, node, st) == [status |-> "ok", pos |-> pos, node |-> node, st |-> st]
\* A failure that leaves a node in outNode.
Fail_WithNode(pos, st) ==
    [status |-> "fail", pos |-> pos, node |-> Node(<<>>, <<>>, <<>>), st |-> st]
Fail(pos, st) == [status |-> "fail", pos |-> pos, node |-> NoNode, st |-> st]
Abort(how, pos, st) == [status |-> how, pos |-> pos, node |-> NoNode, st |-> st]

Min(a, b) == IF a <= b THEN a ELSE b

\* input.compare(pos, len, literal) == 0 under the guard pos + len <= size.
Compare(input, pos, literal) ==
    /\ pos + Len(literal) <= Len(input)
    /\ Substr(input, pos, Len(literal)) = literal

\* ------------------------------------------------------------------------
\* Matcher (BNFParser.cpp)
\* ------------------------------------------------------------------------

parseTerminal(expr, input, pos, st) ==
    LET literal == stripQuotes(heap[expr].value)
    IN  IF Len(literal) = 0 THEN Fail(pos, updateError(st, pos, <<"empty terminal">>))
        ELSE IF Compare(input, pos, literal)
        THEN Ok(pos + Len(literal), Node(literal, literal, <<>>), st)
        ELSE Fail(pos, updateError(st, pos, <<"terminal", literal>>))

parseCharRange(expr, input, pos, st) ==
    LET start == heap[expr].start
        end   == heap[expr].end
        desc  == <<"character in range", start, end>>
    IN  IF pos >= Len(input) THEN Fail(pos, updateError(st, pos, desc))
        ELSE IF At(input, pos) >= start /\ At(input, pos) <= end
        THEN Ok(pos + 1, Node(Str(<<"<","c","h","a","r","-","r","a","n","g","e",">">>),
                              <<At(input, pos)>>, <<>>), st)
        ELSE Fail(pos, updateError(st, pos, desc))

parseCharClass(expr, input, pos, st) ==
    IF pos >= Len(input) THEN Fail(pos, updateError(st, pos, <<"character class">>))
    ELSE IF At(input, pos) \in heap[expr].charBitmap
    THEN Ok(pos + 1, Node(Str(<<"<","c","h","a","r","-","c","l","a","s","s",">">>),
                          <<At(input, pos)>>, <<>>), st)
    ELSE Fail(pos, updateError(st, pos, <<"character class">>))

\* parseAlternative lines 404-420: whether a branch with FIRST info fi is
\* skipped, given whether a lookahead byte exists and its value.
FirstSkip(fi, hasChar, look) ==
    IF hasChar
    THEN (~fi.nullable /\ look \notin fi.chars) \/ (~fi.nullable /\ fi.chars = {})
    ELSE ~fi.nullable

\* parseAlternative line 428: whether a branch ending at pos replaces the
\* winner ending at bestPos.
\* A winner that is replaced by a later branch ending at the same position.
AltBetter_OrEqual(pos, bestPos) == pos >= bestPos
AltBetter(pos, bestPos) == pos > bestPos

\* parseRepeat line 517: the iteration matched nothing.
\* A loop that keeps an empty iteration.
RepStopsOnEmpty_Never(it) == FALSE
RepStopsOnEmpty(it) == ~it.null /\ it.matched = <<>>

\* parseSequence line 368: the position a failed sequence leaves.
\* A sequence that leaves the position where its failing child stopped.
SeqFailPos_Keep(savedPos, pos) == pos
SeqFailPos(savedPos, pos) == savedPos

Max(a, b) == IF a >= b THEN a ELSE b

SeqLabel == Str(<<"<","s","e","q",">">>)
AltLabel == Str(<<"<","a","l","t",">">>)
OptLabel == Str(<<"<","o","p","t",">">>)
RepLabel == Str(<<"<","r","e","p",">">>)

\* Concatenation of the matched texts of the non-null nodes of ns.
RECURSIVE Cat(_)
Cat(ns) ==
    IF ns = <<>> THEN <<>>
    ELSE (IF Head(ns).null THEN <<>> ELSE Head(ns).matched) \o Cat(Tail(ns))

\* The locals of parseAlternative on entry at position pos.  maxEnd is the
\* greatest end position of any branch so far that matches at pos, skipped
\* ones included (-1 when none): it is observed, not used.
AltLocals(pos) == [bestNode |-> NoNode, bestPos |-> pos, anyMatch |-> FALSE, maxEnd |-> -1]

RECURSIVE parseExpression(_, _, _, _, _)
RECURSIVE parseSymbol(_, _, _, _, _)
RECURSIVE parseSequence(_, _, _, _, _, _, _, _)
RECURSIVE parseAlternative(_, _, _, _, _, _, _)
RECURSIVE parseOptional(_, _, _, _, _)
RECURSIVE parseRepeat(_, _, _, _, _, _, _)

\* The dispatcher.  active holds the <<symbol expression, position>> pairs
\* whose parseSymbol call is on the stack.
parseExpression(expr, input, pos, st, active) ==
    IF expr = 0 THEN Fail(pos, updateError(st, pos, <<"null expression">>))
    ELSE CASE heap[expr].type = "EXPR_TERMINAL" -> parseTerminal(expr, input, pos, st)
           [] heap[expr].type = "EXPR_SYMBOL" -> parseSymbol(expr, input, pos, st, active)
           [] heap[expr].type = "EXPR_SEQUENCE" ->
                parseSequence(expr, input, pos, pos, 1, <<>>, st, active)
           [] heap[expr].type = "EXPR_ALTERNATIVE" ->
                parseAlternative(expr, input, pos, 1, AltLocals(pos), st, active)
           [] heap[expr].type = "EXPR_OPTIONAL" -> parseOptional(expr, input, pos, st, active)
           [] heap[expr].type = "EXPR_REPEAT" ->
                parseRepeat(expr, input, pos, pos, <<>>, st, active)
           [] heap[expr].type = "EXPR_CHAR_RANGE" -> parseCharRange(expr, input, pos, st)
           [] heap[expr].type = "EXPR_CHAR_CLASS" -> parseCharClass(expr, input, pos, st)
           [] OTHER -> Fail(pos, updateError(st, pos, <<"unsupported expression type">>))

\* The matcher decides by (expression, position) alone, so a parseSymbol
\* call that reaches its own expression at its own position recurses
\* without end.
parseSymbol(expr, input, pos, st, active) ==
    LET rr == getRule(rules, heap[expr].value)
        r  == parseExpression(rules[rr].rootExpr, input, pos, st, active \cup {<<expr, pos>>})
    IN  IF rr = 0 THEN Fail(pos, updateError(st, pos, <<"symbol undefined", heap[expr].value>>))
        ELSE IF <<expr, pos>> \in active THEN Abort("crash", pos, st)
        ELSE IF r.status = "fail" THEN Fail(pos, r.st)
        ELSE IF r.status = "ok"
        THEN Ok(r.pos, Node(heap[expr].value,
                            IF r.node.null THEN <<>> ELSE r.node.matched,
                            IF r.node.null THEN <<>> ELSE <<r.node>>), r.st)
        ELSE r

\* parseSequence from its i-th child on: savedPos is the position on entry,
\* tmpChildren the nodes of the children matched so far (matchedAccum is
\* the concatenation of their matched texts).
parseSequence(expr, input, savedPos, pos, i, tmpChildren, st, active) ==
    LET elemStartPos == pos
        r == parseExpression(heap[expr].children[i], input, pos, st, active)
        failedText == IF elemStartPos < Len(input)
                      THEN Substr(input, elemStartPos,
                                  Min(elemStartPos + 20, Len(input)) - elemStartPos)
                      ELSE <<>>
        recorded == IF r.st.hasCtx /\ tmpChildren # <<>>
                    THEN [r.st EXCEPT
                            !.ctx.partialNodes = @ \o tmpChildren,
                            !.ctx.failures = Append(@, FailedNode(elemStartPos, failedText,
                                                     r.st.ctx.expected, "<seq-element>"))]
                    ELSE r.st
    IN  IF i > Len(heap[expr].children)
        THEN Ok(pos, Node(SeqLabel, Cat(tmpChildren), tmpChildren), st)
        ELSE IF r.status = "fail" THEN Fail(SeqFailPos(savedPos, r.pos), recorded)
        ELSE IF r.status = "ok"
        THEN parseSequence(expr, input, savedPos, r.pos, i + 1, Append(tmpChildren, r.node),
                           r.st, active)
        ELSE r

\* parseAlternative from its i-th branch on; pos is the position on entry
\* (restored after every branch), loc the locals.
parseAlternative(expr, input, pos, i, loc, st, active) ==
    LET hasChar == pos < Len(input)
        look    == IF hasChar THEN At(input, pos) ELSE 0
        child   == heap[expr].children[i]
        f       == computeFirst(child, st.cache, {})
        st1     == IF st.prune THEN [st EXCEPT !.cache = f.cache] ELSE st
        r       == parseExpression(child, input, pos, st1, active)
        \* for a skipped branch r is what the branch would do here: only its
        \* status and end position are observed
        better  == AltBetter(r.pos, loc.bestPos)
        tried   == [loc EXCEPT
                      !.anyMatch = TRUE,
                      !.maxEnd   = Max(@, r.pos),
                      !.bestNode = IF better THEN Node(AltLabel, r.node.matched, <<r.node>>)
                                   ELSE @,
                      !.bestPos  = IF better THEN r.pos ELSE @]
    IN  IF i > Len(heap[expr].children)
        THEN IF ~loc.anyMatch THEN Fail(pos, st)
             ELSE Ok(loc.bestPos, loc.bestNode,
                     [st EXCEPT !.obs.altShort = @ \/ loc.maxEnd > loc.bestPos])
        ELSE IF st.prune /\ f.crash THEN Abort("crash", pos, st)
        ELSE IF st.prune /\ FirstSkip(f.fi, hasChar, look)
        THEN IF r.status = "ok"
             THEN parseAlternative(expr, input, pos, i + 1,
                                   [loc EXCEPT !.maxEnd = Max(@, r.pos)],
                                   [st1 EXCEPT !.obs.altSkipOk = TRUE], active)
             ELSE parseAlternative(expr, input, pos, i + 1, loc, st1, active)
        ELSE IF r.status = "fail"
        THEN parseAlternative(expr, input, pos, i + 1, loc, r.st, active)
        ELSE IF r.status = "ok"
        THEN IF better /\ r.node.null THEN Abort("crash", pos, r.st)
             ELSE parseAlternative(expr, input, pos, i + 1, tried, r.st, active)
        ELSE r

parseOptional(expr, input, pos, st, active) ==
    LET r == parseExpression(heap[expr].children[1], input, pos, st, active)
    IN  IF r.status = "fail" THEN Ok(pos, Node(OptLabel, <<>>, <<>>), r.st)
        ELSE IF r.status = "ok"
        THEN Ok(r.pos, Node(OptLabel,
                            IF r.node.null THEN <<>> ELSE r.node.matched,
                            IF r.node.null THEN <<>> ELSE <<r.node>>), r.st)
        ELSE r

\* parseRepeat at the top of its loop: startPos is the position on entry,
\* pos the position now, items the iterations kept (iterations is their
\* number, matchedAccum their concatenation).
parseRepeat(expr, input, startPos, pos, items, st, active) ==
    LET iterSaved == pos
        r == parseExpression(heap[expr].children[1], input, pos, st, active)
        failedText == Substr(input, iterSaved, Min(iterSaved + 20, Len(input)) - iterSaved)
        hadFailure == r.status = "fail" /\ r.st.hasCtx /\ Len(items) > 0 /\ iterSaved < Len(input)
        afterFail == IF hadFailure
                     THEN [r.st EXCEPT
                             !.ctx.failures = Append(@, FailedNode(iterSaved, failedText,
                                                      r.st.ctx.expected, "<rep-element>")),
                             !.ctx.partialNodes = @ \o items]
                     ELSE r.st
        Done(p, its, s) ==
            Ok(p, Node(RepLabel, Cat(its), its),
               [s EXCEPT !.obs.repOver = @ \/ Len(its) > Len(input) - startPos])
    IN  IF r.status = "fail" THEN Done(iterSaved, items, afterFail)
        ELSE IF r.status = "ok"
        THEN IF RepStopsOnEmpty(r.node)
             THEN Done(iterSaved, items, [r.st EXCEPT !.obs.repEmpty = TRUE])
             ELSE IF r.node.null THEN Done(r.pos, items, r.st)
             ELSE IF r.pos >= Len(input) THEN Done(r.pos, Append(items, r.node), r.st)
             \* an iteration kept without moving pos is kept again for ever
             ELSE IF r.pos = iterSaved THEN Abort("hang", pos, r.st)
             ELSE parseRepeat(expr, input, startPos, r.pos, Append(items, r.node), r.st, active)
        ELSE r

\* ------------------------------------------------------------------------
\* Inputs of the model
\* ------------------------------------------------------------------------

\* Most add_rule calls in one behaviour.
MaxRules == 2

RuleT == Str(<<"<","t",">"," ",":",":","="," ","["," ","'","a","'"," ","]"," ","|"," ","'","a","b","'"," ","'","b","'"," ","|"," ","<","x",">">>)
RuleX == Str(<<"<","x",">"," ",":",":","="," ","'","a","'"," ",".",".","."," ","'","b","'"," ",
               "{"," ","["," ","("," ","'","b","'"," ",")"," ","'","b","'"," ","]"," ","}"," ","'","a","'">>)
RuleR == Str(<<"<","r",">"," ",":",":","="," ","'","G","E","T","'"," ","'"," ","'"," ","'","/","'"," ","|"," ",
               "'","P","O","S","T","'"," ","'"," ","'"," ","'","/","'"," ","|"," ","'","P","I","N","G","'">>)

\* The rule texts given to add_rule:
\*   <t> ::= [ 'a' ] | 'ab' 'b' | <x>
\*   <x> ::= 'a' ... 'b' { [ ( 'b' ) 'b' ] } 'a'
\*   <r> ::= 'GET' ' ' '/' | 'POST' ' ' '/' | 'PING'
RuleTexts == {RuleT, RuleX, RuleR}

\* The rule texts given to add_rule when only the builder is exercised:
\*   RuleD1  <d> ::= 'a' 'b'
\*   RuleD2  <d> ::= 'c'
\*   RuleD3   <d>  ::= <d> | 'c'
\*   RuleN1  <n> 'a'
\*   RuleN2  <n> := 'a'
\*   RuleZ   <z> ::= 'z' ... 'a'
\*   RuleE   <e> ::= '' 'a'
\*   RuleC   <c> ::= ( 'a' 'z' ... 'x' 0x41 )
\*   RuleQ   <q> ::= ( ^ 'b' ... 'a' 0x0A )
\*   RuleP   <p> ::= 'a' { 'b' | 'c' 'd' } [ 'e' ] | 'f'
\*   RuleH   <h> ::= ( 0x61 ... 0x41 "q" )
RuleD1 == Str(<<"<","d",">"," ",":",":","="," ","'","a","'"," ","'","b","'">>)
RuleD2 == Str(<<"<","d",">"," ",":",":","="," ","'","c","'">>)
RuleD3 == Str(<<" ","<","d",">"," "," ",":",":","="," ","<","d",">"," ","|"," ","'","c","'">>)
RuleN1 == Str(<<"<","n",">"," ","'","a","'">>)
RuleN2 == Str(<<"<","n",">"," ",":","="," ","'","a","'">>)
RuleZ == Str(<<"<","z",">"," ",":",":","="," ","'","z","'"," ",".",".","."," ","'","a","'">>)
RuleE == Str(<<"<","e",">"," ",":",":","="," ","'","'"," ","'","a","'">>)
RuleC == Str(<<"<","c",">"," ",":",":","="," ","("," ","'","a","'"," ","'","z","'"," ",".",".","."," ","'","x","'"," ","0","x","4","1"," ",")">>)
RuleQ == Str(<<"<","q",">"," ",":",":","="," ","("," ","^"," ","'","b","'"," ",".",".","."," ","'","a","'"," ","0","x","0","A"," ",")">>)
RuleP == Str(<<"<","p",">"," ",":",":","="," ","'","a","'"," ","{"," ","'","b","'"," ","|"," ","'","c","'"," ","'","d","'"," ","}"," ","["," ","'","e","'"," ","]"," ","|"," ","'","f","'">>)
RuleH == Str(<<"<","h",">"," ",":",":","="," ","("," ","0","x","6","1"," ",".",".","."," ","0","x","4","1"," ","\"","q","\""," ",")">>)
BuildTexts == RuleTexts \cup {RuleD1, RuleD2, RuleD3, RuleN1, RuleN2, RuleZ, RuleE, RuleC, RuleQ, RuleP, RuleH}

\* The rule texts of the grammars given to the matcher:
\*   RuleW   <w> ::= "'a'"
\*   RuleV   <v> ::= 'a' 'b' | 'ab' | 'a'
\*   RuleS   <s> ::= 'a' <m>
\*   RuleO   <o> ::= <m> | 'a'
\*   RuleU   <u> ::= <m>
\*   RuleB   <b> ::= 'a' |
\*   RuleG   <g> ::= { } [ ] 'a'
\*   RuleY   <y> ::=
\*   RuleK   <k> ::= 'a' ... 'c' ( 'b' 'c' ) 'c'
\*   RuleI   <i> ::= 'a' | <j>
\*   RuleJ   <j> ::= [ 'b' ] <i> | 'c'
RuleW == Str(<<"<","w",">"," ",":",":","="," ","\"","'","a","'","\"">>)
RuleV == Str(<<"<","v",">"," ",":",":","="," ","'","a","'"," ","'","b","'"," ","|"," ","'","a","b","'"," ","|"," ","'","a","'">>)
RuleS == Str(<<"<","s",">"," ",":",":","="," ","'","a","'"," ","<","m",">">>)
RuleO == Str(<<"<","o",">"," ",":",":","="," ","<","m",">"," ","|"," ","'","a","'">>)
RuleU == Str(<<"<","u",">"," ",":",":","="," ","<","m",">">>)
RuleB == Str(<<"<","b",">"," ",":",":","="," ","'","a","'"," ","|">>)
RuleG == Str(<<"<","g",">"," ",":",":","="," ","{"," ","}"," ","["," ","]"," ","'","a","'">>)
RuleY == Str(<<"<","y",">"," ",":",":","=">>)
RuleK == Str(<<"<","k",">"," ",":",":","="," ","'","a","'"," ",".",".","."," ","'","c","'"," ","("," ","'","b","'"," ","'","c","'"," ",")"," ","'","c","'">>)
RuleI == Str(<<"<","i",">"," ",":",":","="," ","'","a","'"," ","|"," ","<","j",">">>)
RuleJ == Str(<<"<","j",">"," ",":",":","="," ","["," ","'","b","'"," ","]"," ","<","i",">"," ","|"," ","'","c","'">>)

\* The grammars a program loads, each a list of rule texts added in order:
\* a terminal whose content is itself quoted; branches that tie; an
\* undefined symbol in a sequence, in an alternative and alone; an empty
\* branch, empty braces and brackets, an empty body; a range and a class;
\* rules that refer to themselves directly and through each other.
Grammars ==
    {<<RuleW, RuleV>>, <<RuleS, RuleO>>, <<RuleU, RuleB>>, <<RuleG, RuleY>>,
     <<RuleK, RuleD3>>, <<RuleI, RuleJ>>}

\* The rule names and the inputs given to parse on these grammars.
MatchNames ==
    {Str(<<"<",c,">">>) : c \in {"w", "v", "s", "o", "u", "b", "g", "y", "k", "d", "i"}}
MatchInputs ==
    {<<>>, Str(<<"a">>), Str(<<"b">>), Str(<<"a","b">>),
     Str(<<"'","a","'">>), Str(<<"b","c","c">>)}

\* The texts given to a BNFTokenizer on its own:
\*   TextRule      <letter> { <letter> | '0' } [ 'X' ]
\*   TextClass     ( ^ 'a' ... 'z' 0x41 )
\*   TextMixed     PING "q" 0X1f...'b'
\*   TextOpenSym   <ab
\*   TextOpenQuote 'ab
\*   TextDot       ab.c
\*   TextHex       0xg|a 0 x1
\*   TextGlued     a<b>'c'
\*   TextQuotes    'a"b' "c'd"  
\*   TextTabs      'a' <tab> | <tab> <x>
TextRule == Str(<<"<","l","e","t","t","e","r",">"," ","{"," ","<","l","e","t","t","e","r",">"," ","|"," ","'","0","'"," ","}"," ","["," ","'","X","'"," ","]">>)
TextClass == Str(<<"("," ","^"," ","'","a","'"," ",".",".","."," ","'","z","'"," ","0","x","4","1"," ",")">>)
TextMixed == Str(<<"P","I","N","G"," ","\"","q","\""," ","0","X","1","f",".",".",".","'","b","'">>)
TextOpenSym == Str(<<"<","a","b">>)
TextOpenQuote == Str(<<"'","a","b">>)
TextDot == Str(<<"a","b",".","c">>)
TextHex == Str(<<"0","x","g","|","a"," ","0"," ","x","1">>)
TextGlued == Str(<<"a","<","b",">","'","c","'">>)
TextQuotes == Str(<<"'","a","\"","b","'"," ","\"","c","'","d","\""," "," ">>)
TextTabs == Str(<<"'","a","'">>) \o <<9>> \o Str(<<"|">>) \o <<9>> \o Str(<<"<","x",">">>)
TokTexts == {TextRule, TextClass, TextMixed, TextOpenSym, TextOpenQuote, TextDot, TextHex, TextGlued, TextQuotes, TextTabs}

\* Most consecutive peek() calls in one behaviour.
MaxPeeks == 2

\* The rule names given to parse; each is unknown until its rule is added.
RuleNames == {Str(<<"<","t",">">>), Str(<<"<","x",">">>), Str(<<"<","r",">">>)}

\* The input strings given to parse.
Inputs == {<<>>, Str(<<"a","b","a">>), Str(<<"a","b","b","a">>), Str(<<"T","R","A","C","E">>)}

\* ------------------------------------------------------------------------
\* Operations
\* ------------------------------------------------------------------------

NoCall == [op |-> "none", name |-> <<>>, input |-> <<>>]

\* The tokenizer object of a program that has not constructed one.  op is
\* the last call made on the object, tok what it returned, peeks the number
\* of peek() calls since the last next(), and peeked the number of peek()
\* calls that preceded the last next().
NoTz == [text |-> <<>>, pos |-> 0, op |-> "none", tok |-> Token("TOK_END", <<>>),
         peeks |-> 0, peeked |-> 0]

InitParser ==
    /\ heap = <<>>
    /\ rules = <<>>
    /\ interner = [attached |-> FALSE, table |-> {}]
    /\ firstCache = <<>>
    /\ consumed = 0
    /\ legacyAst = NoNode
    /\ ctx = ResetCtx
    /\ call = NoCall
    /\ obs = NoObs
    /\ pc = "ready"
    /\ diag = <<>>

\* ---- Arena ----

\* size_t arithmetic: the width of the machine word, scaled down.
Word == 1024
Wrap(x) == x % Word

\* sizeof(void*).
PtrSize == 8

\* The alignment std::malloc guarantees.
MallocAlign == 16

\* x & y on machine words.
RECURSIVE BitAnd(_, _)
BitAnd(x, y) ==
    IF x = 0 \/ y = 0 THEN 0
    ELSE (x % 2) * (y % 2) + 2 * BitAnd(x \div 2, y \div 2)

\* `(curr + (alignment - 1)) & ~(alignment - 1)`.
AlignUp(curr, alignment) ==
    BitAnd(Wrap(curr + Wrap(alignment + Word - 1)),
           (Word - 1) - Wrap(alignment + Word - 1))

\* The range [b, b + size) is inside the address space and meets no block
\* that std::malloc returned.
FreeAt(blocks, b, size) ==
    /\ b + size <= Word
    /\ \A i \in DOMAIN blocks :
          \/ blocks[i].data = 0
          \/ b + size <= blocks[i].data
          \/ blocks[i].data + blocks[i].size <= b

\* The least element of a non-empty set of addresses.
Lowest(S) == CHOOSE b \in S : \A c \in S : b <= c

\* std::malloc(size): the addresses it can return, the lowest free address
\* of each residue modulo 2 * MallocAlign, or the null pointer 0 when the
\* request fits nowhere.
Malloc(blocks, size) ==
    LET cands(r) == {b \in {MallocAlign * k : k \in 1..(Word \div MallocAlign - 1)} :
                         b % (2 * MallocAlign) = r /\ FreeAt(blocks, b, size)}
        pick(S)  == IF S = {} THEN {} ELSE {Lowest(S)}
        found    == pick(cands(0)) \cup pick(cands(MallocAlign))
    IN  IF found = {} THEN {0} ELSE found

\* The size Arena::addBlock gives a block asked for with minSize.
BlockSizeFor(defaultBlockSize, minSize) ==
    IF minSize > defaultBlockSize THEN minSize ELSE defaultBlockSize

\* Arena::addBlock(minSize), std::malloc having returned mem.
addBlock(blocks, defaultBlockSize, minSize, mem) ==
    Append(blocks, [data |-> mem, used |-> 0, size |-> BlockSizeFor(defaultBlockSize, minSize)])

\* `if (alignment < sizeof(void*)) alignment = sizeof(void*)`.
Alignment(alignment) == IF alignment < PtrSize THEN PtrSize ELSE alignment

\* `offset` in Arena::allocate: where in block blk the request would start.
OffsetIn(blk, al) ==
    Wrap(AlignUp(Wrap(blk.data + blk.used), al) + Word - blk.data)

\* `offset + size > blk.size`: Arena::allocate takes the new-block path.
NeedsBlock(blk, size, al) == Wrap(OffsetIn(blk, al) + size) > blk.size

\* Arena::allocate(size, alignment) on blocks that are not empty, mem being
\* what std::malloc returns if a block is added: the blocks left and the
\* pointer returned (0 is the null pointer).
allocate(blocks, defaultBlockSize, size, alignment, mem) ==
    LET al  == Alignment(alignment)
        n   == Len(blocks)
        blk == blocks[n]
    IN  IF NeedsBlock(blk, size, al)
        THEN LET grown  == addBlock(blocks, defaultBlockSize, Wrap(size + al), mem)
                 nb     == grown[n + 1]
                 offset == OffsetIn(nb, al)
             IN  IF Wrap(offset + size) > nb.size
                 THEN [blocks |-> grown, ret |-> 0]
                 ELSE [blocks |-> [grown EXCEPT ![n + 1].used = Wrap(offset + size)],
                       ret    |-> Wrap(nb.data + offset)]
        ELSE [blocks |-> [blocks EXCEPT ![n].used = Wrap(OffsetIn(blk, al) + size)],
              ret    |-> Wrap(blk.data + OffsetIn(blk, al))]

\* Arena::reset.
Arena_reset(blocks) == [i \in DOMAIN blocks |-> [blocks[i] EXCEPT !.used = 0]]

\* No Arena constructed yet.
NoArena ==
    [op |-> "none", blocks |-> <<>>, defaultBlockSize |-> 0, size |-> 0, alignment |-> 0,
     ret |-> 0, regions |-> <<>>, calls |-> 0]

Init == InitParser /\ tz = NoTz /\ arena = NoArena

\* Grammar::setInterner with a new, empty interner, called as the
\* repository's callers do: once, before the first rule is added.
SetInterner ==
    /\ pc = "ready"
    /\ ~interner.attached
    /\ rules = <<>>
    /\ interner' = [attached |-> TRUE, table |-> {}]
    /\ call' = [op |-> "setInterner", name |-> <<>>, input |-> <<>>]
    /\ consumed' = 0 /\ legacyAst' = NoNode /\ ctx' = ResetCtx /\ obs' = NoObs
    /\ UNCHANGED <<heap, rules, firstCache, pc, diag, tz, arena>>

\* Grammar::addRule after parseExpression returned: the rule named lhs is
\* appended with the root st.addr of the allocated tree.
PushRule(lhs, st) ==
    /\ heap' = st.heap
    /\ interner' = [interner EXCEPT !.table = st.table]
    /\ rules' = Append(rules, [name |-> lhs, rootExpr |-> st.addr])
    /\ UNCHANGED <<firstCache, pc>>

\* Grammar::addRule from `Rule* r = new Rule()` on: built is what
\* parseExpression does on the right-hand side.
BuildRule(lhs, built) ==
    IF built.hang
    THEN pc' = "hung" /\ UNCHANGED <<heap, rules, interner, firstCache>>
    ELSE PushRule(lhs, Alloc(heap, interner.table, interner.attached, built.e))

\* An addRule that returns on a missing separator without writing anything.
InvalidRule_Silent(ruleText, sep) == <<>>

\* What Grammar::addRule writes to std::cerr for a text whose separator was
\* searched with result sep.
InvalidRule(ruleText, sep) == IF sep = -1 THEN <<"Invalid rule: ", ruleText>> ELSE <<>>

\* Grammar::addRule(ruleText).  The caller has released the results of
\* earlier parses.
AddRule(ruleText) ==
    LET sep == FindSep(ruleText)
    IN  /\ pc = "ready"
        /\ Len(rules) < MaxRules
        /\ call' = [op |-> "addRule", name |-> ruleText, input |-> <<>>]
        /\ consumed' = 0 /\ legacyAst' = NoNode /\ ctx' = ResetCtx /\ obs' = NoObs
        /\ UNCHANGED <<tz, arena>>
        /\ diag' = InvalidRule(ruleText, sep)
        /\ IF sep = -1
           THEN UNCHANGED <<heap, rules, interner, firstCache, pc>>
           ELSE BuildRule(TrimRight(TrimLeft(Substr(ruleText, 0, sep))),
                          GrammarParseExpression(
                              Substr(ruleText, sep + 3, Len(ruleText) - (sep + 3)), 0))

\* How a parse that did not return leaves the program.
Stopped(status) == IF status = "crash" THEN "crashed" ELSE "hung"

\* The run of the matcher on rule r from position 0.
RunMatcher(r, input, hasCtx, prune, c, cache) ==
    parseExpression(rules[r].rootExpr, input, 0, MatchState(hasCtx, prune, c, cache), {})

\* The legacy BNFParser::parse(ruleName, input, consumed): the value of
\* consumed on return and the tree returned, given whether the rule was
\* found, the matcher's outcome m and the value consumed held on entry.
\* A legacy parse that writes consumed only on success.
LegacyConsumed_Stale(m, found, consumedIn) == IF found /\ m.status = "ok" THEN m.pos ELSE consumedIn
LegacyConsumed(m, found, consumedIn) == IF found /\ m.status = "ok" THEN m.pos ELSE 0
LegacyReturn(m, found) == IF found /\ m.status = "ok" THEN m.node ELSE NoNode

ParseLegacy(ruleName, input) ==
    LET r == getRule(rules, ruleName)
        m == RunMatcher(r, input, FALSE, TRUE, ResetCtx, firstCache)
    IN  /\ pc = "ready"
        /\ call' = [op |-> "parse", name |-> ruleName, input |-> input]
        /\ ctx' = ResetCtx
        /\ UNCHANGED <<heap, rules, interner, diag, tz, arena>>
        /\ IF r = 0
           THEN /\ consumed' = LegacyConsumed(m, FALSE, consumed)
                /\ legacyAst' = LegacyReturn(m, FALSE)
                /\ obs' = NoObs
                /\ UNCHANGED <<firstCache, pc>>
           ELSE IF m.status \in {"crash", "hang"}
           THEN /\ pc' = Stopped(m.status)
                /\ consumed' = 0 /\ legacyAst' = NoNode /\ obs' = m.st.obs
                /\ firstCache' = m.st.cache
           ELSE /\ consumed' = LegacyConsumed(m, TRUE, consumed)
                /\ legacyAst' = LegacyReturn(m, TRUE)
                /\ obs' = m.st.obs
                /\ firstCache' = m.st.cache
                /\ UNCHANGED pc

\* The unified BNFParser::parse(ruleName, input, ctx): the context on
\* return, given the matcher's outcome m run on the reset context.
UnifiedNotFound(c, ruleName) ==
    [c EXCEPT !.success = FALSE, !.errorPos = 0, !.expected = <<"rule not found", ruleName>>]
UnifiedReturn(m) ==
    IF m.status = "ok"
    THEN [m.st.ctx EXCEPT !.ast = m.node, !.consumed = m.pos, !.success = TRUE]
    ELSE [m.st.ctx EXCEPT !.ast = NoNode, !.consumed = m.pos, !.success = FALSE]

ParseUnified(ruleName, input) ==
    LET r == getRule(rules, ruleName)
        m == RunMatcher(r, input, TRUE, TRUE, reset(ctx), firstCache)
    IN  /\ pc = "ready"
        /\ call' = [op |-> "parseCtx", name |-> ruleName, input |-> input]
        /\ consumed' = 0 /\ legacyAst' = NoNode
        /\ UNCHANGED <<heap, rules, interner, diag, tz, arena>>
        /\ IF r = 0
           THEN /\ ctx' = UnifiedNotFound(reset(ctx), ruleName)
                /\ obs' = NoObs
                /\ UNCHANGED <<firstCache, pc>>
           ELSE IF m.status \in {"crash", "hang"}
           THEN /\ pc' = Stopped(m.status)
                /\ ctx' = ResetCtx /\ obs' = m.st.obs
                /\ firstCache' = m.st.cache
           ELSE /\ ctx' = UnifiedReturn(m)
                /\ obs' = m.st.obs
                /\ firstCache' = m.st.cache
                /\ UNCHANGED pc

Next ==
    \/ SetInterner
    \/ \E ruleText \in RuleTexts : AddRule(ruleText)
    \/ \E ruleName \in RuleNames, input \in Inputs : ParseLegacy(ruleName, input)
    \/ \E ruleName \in RuleNames, input \in Inputs : ParseUnified(ruleName, input)

Spec == Init /\ [][Next]_vars

\* The name Grammar::addRule gives the rule of a text with a separator.
LhsOf(ruleText) == TrimRight(TrimLeft(Substr(ruleText, 0, FindSep(ruleText))))

\* A program that loads one of the grammars, rule by rule, and parses at
\* any time: the next rule of the grammar whose first rules are loaded.
LoadRule ==
    \E g \in Grammars :
        /\ Len(rules) < Len(g)
        /\ \A i \in DOMAIN rules : rules[i].name = LhsOf(g[i])
        /\ AddRule(g[Len(rules) + 1])

MatchNext ==
    \/ LoadRule
    \/ \E ruleName \in MatchNames, input \in MatchInputs : ParseLegacy(ruleName, input)
    \/ \E ruleName \in MatchNames, input \in MatchInputs : ParseUnified(ruleName, input)

MatchSpec == Init /\ [][MatchNext]_vars

\* A program that only builds a grammar.
BuildNext ==
    \/ SetInterner
    \/ \E ruleText \in BuildTexts : AddRule(ruleText)

BuildSpec == Init /\ [][BuildNext]_vars

\* BNFTokenizer::BNFTokenizer(input).
TzNew(text) ==
    /\ tz.op = "none"
    /\ tz' = [NoTz EXCEPT !.text = text, !.op = "new"]
    /\ UNCHANGED <<heap, rules, interner, firstCache, consumed, legacyAst, ctx, call, obs, pc, diag, arena>>

\* BNFTokenizer::next().
TzNext ==
    /\ tz.op # "none"
    /\ tz' = [tz EXCEPT !.pos = TokNext(tz.text, tz.pos).pos,
                        !.tok = TokNext(tz.text, tz.pos).tok,
                        !.op = "next",
                        !.peeks = 0,
                        !.peeked = tz.peeks]
    /\ UNCHANGED <<heap, rules, interner, firstCache, consumed, legacyAst, ctx, call, obs, pc, diag, arena>>

\* A peek that leaves the cursor where next() put it.
PeekRestore_Advance(save, after) == after

\* The cursor BNFTokenizer::peek leaves: `pos = save` after next() moved it.
PeekRestore(save, after) == save

\* BNFTokenizer::peek().
TzPeek ==
    /\ tz.op # "none"
    /\ tz.peeks < MaxPeeks
    /\ tz' = [tz EXCEPT !.pos = PeekRestore(tz.pos, TokNext(tz.text, tz.pos).pos),
                        !.tok = TokNext(tz.text, tz.pos).tok,
                        !.op = "peek",
                        !.peeks = tz.peeks + 1]
    /\ UNCHANGED <<heap, rules, interner, firstCache, consumed, legacyAst, ctx, call, obs, pc, diag, arena>>

\* A program that only uses a tokenizer.
TokStep ==
    \/ \E text \in TokTexts : TzNew(text)
    \/ TzNext
    \/ TzPeek

TokSpec == Init /\ [][TokStep]_vars

\* The arenas constructed, the requests made of them, and how many requests
\* one arena is followed through.
BlockSizes == {32}
Sizes      == {0, 8, 20, Word - 8}
Alignments == {1, 16, 32}
MaxAllocs  == 3

\* Arena::Arena(blockSize).
ArenaNew(blockSize) ==
    /\ arena.op = "none"
    /\ arena' = [NoArena EXCEPT !.op = "new", !.defaultBlockSize = blockSize]
    /\ UNCHANGED <<heap, rules, interner, firstCache, consumed, legacyAst, ctx, call, obs, pc, diag, tz>>

\* The arena after allocate(size, alignment) left blocks r.blocks and
\* returned r.ret: a pointer that is not null is a region handed out.
Returned(a, size, alignment, r) ==
    [a EXCEPT !.op = "allocate", !.size = size, !.alignment = alignment,
              !.blocks = r.blocks, !.ret = r.ret, !.calls = a.calls + 1,
              !.regions = IF r.ret = 0 THEN a.regions
                          ELSE Append(a.regions, [addr |-> r.ret, size |-> size,
                                                  alignment |-> alignment])]

\* The blocks Arena::allocate works on after `if (blocks.empty()) addBlock(size)`,
\* std::malloc having returned mem.
FirstBlock(a, size, mem) ==
    IF a.blocks = <<>> THEN addBlock(a.blocks, a.defaultBlockSize, size, mem) ELSE a.blocks

\* Arena::allocate(size, alignment).
ArenaAllocate(size, alignment) ==
    /\ arena.op # "none"
    /\ arena.calls < MaxAllocs
    /\ \E mem1 \in IF arena.blocks = <<>>
                   THEN Malloc(<<>>, BlockSizeFor(arena.defaultBlockSize, size)) ELSE {0} :
       \E mem2 \in IF NeedsBlock(FirstBlock(arena, size, mem1)[Len(FirstBlock(arena, size, mem1))],
                                 size, Alignment(alignment))
                   THEN Malloc(FirstBlock(arena, size, mem1),
                               BlockSizeFor(arena.defaultBlockSize, Wrap(size + Alignment(alignment))))
                   ELSE {0} :
          arena' = Returned(arena, size, alignment,
                            allocate(FirstBlock(arena, size, mem1), arena.defaultBlockSize,
                                     size, alignment, mem2))
    /\ UNCHANGED <<heap, rules, interner, firstCache, consumed, legacyAst, ctx, call, obs, pc, diag, tz>>

\* Arena::reset().
ArenaReset ==
    /\ arena.op \notin {"none", "reset"}
    /\ arena' = [arena EXCEPT !.op = "reset", !.blocks = Arena_reset(arena.blocks),
                              !.ret = 0, !.regions = <<>>]
    /\ UNCHANGED <<heap, rules, interner, firstCache, consumed, legacyAst, ctx, call, obs, pc, diag, tz>>

\* A program that only uses an arena.
ArenaStep ==
    \/ \E blockSize \in BlockSizes : ArenaNew(blockSize)
    \/ \E size \in Sizes, alignment \in Alignments : ArenaAllocate(size, alignment)
    \/ ArenaReset

ArenaSpec == Init /\ [][ArenaStep]_vars

\* ------------------------------------------------------------------------
\* Properties
\* ------------------------------------------------------------------------

IsLegacy  == pc = "ready" /\ call.op = "parse"
IsUnified == pc = "ready" /\ call.op = "parseCtx"
Found     == getRule(rules, call.name) # 0

\* input[0 .. n)
Prefix(input, n) == SubSeq(input, 1, n)

\* The expression tree below address a.
RECURSIVE Tree(_, _)
Tree(h, a) ==
    IF a = 0 THEN NullExpr
    ELSE [h[a] EXCEPT !.children = [k \in 1..Len(h[a].children) |-> Tree(h, h[a].children[k])]]

\* What the last parse call would have returned with the FIRST checks of
\* parseAlternative removed.
Unpruned ==
    RunMatcher(getRule(rules, call.name), call.input, call.op = "parseCtx", FALSE, ResetCtx, firstCache)

\* The descriptions the matcher's leaves attach to a failure.
LeafTags == {"terminal", "empty terminal", "character in range", "character class",
             "symbol undefined", "null expression", "unsupported expression type"}

\* C1: after every successful parse (legacy: a tree is returned; unified:
\* success is true) the root tree's matched text is exactly the first
\* `consumed` bytes of the input.
C1_MatchedIsConsumedPrefix ==
    /\ IsLegacy /\ ~legacyAst.null => legacyAst.matched = Prefix(call.input, consumed)
    /\ IsUnified /\ ctx.success =>
          ~ctx.ast.null /\ ctx.ast.matched = Prefix(call.input, ctx.consumed)

\* C2: whenever parseAlternative succeeds, the end position it commits to
\* is the greatest end position over all its branches that match at that
\* position, branches skipped by the FIRST check included.
C2_LongestMatch ==
    (IsLegacy \/ IsUnified) => ~obs.altShort

\* C3: every parse call reports consumed <= len(input); when the top-level
\* rule fails, or the rule name is unknown, consumed is 0 and no tree is
\* returned.
C3_ConsumedBounded ==
    /\ IsLegacy => /\ consumed <= Len(call.input)
                   /\ legacyAst.null => consumed = 0
    /\ IsUnified => /\ ctx.consumed <= Len(call.input)
                    /\ ~ctx.success => ctx.consumed = 0 /\ ctx.ast.null

\* A unified parse whose top-level sequence failed after its first
\* children had advanced.
C3_Witness ==
    IsUnified /\ Found /\ ~ctx.success /\ ctx.errorPos > 0 /\ ctx.partialNodes # <<>>

\* C4: the matcher with the FIRST checks returns the same success flag,
\* consumed count and tree as the matcher without them.
C4_PruningSound ==
    /\ IsLegacy /\ Found =>
          /\ legacyAst = LegacyReturn(Unpruned, TRUE)
          /\ consumed = LegacyConsumed(Unpruned, TRUE, 0)
    /\ IsUnified /\ Found =>
          /\ ctx.success = UnifiedReturn(Unpruned).success
          /\ ctx.consumed = UnifiedReturn(Unpruned).consumed
          /\ ctx.ast = UnifiedReturn(Unpruned).ast

\* C5: matching a Repeat terminates, also with a nullable child, and keeps
\* at most len(input) - start iterations.
C5_RepeatTerminates ==
    /\ pc # "hung"
    /\ ~obs.repOver

\* A parse in which a Repeat over a nullable child stopped on an empty
\* match.
C5_Witness ==
    (IsLegacy \/ IsUnified) /\ obs.repEmpty /\ call.input # <<>>

\* C6: a unified parse never ends with success = true and no tree.
C6_SuccessHasTree ==
    IsUnified /\ ctx.success => ~ctx.ast.null

C8_ErrorPosMonotone ==
    IsUnified =>
        /\ \A k \in 1..(Len(obs.errTrace) - 1) : obs.errTrace[k] <= obs.errTrace[k + 1]
        /\ ~ctx.success => ctx.errorPos >= ctx.consumed

\* A failed unified parse with several leaf reports, one of them at a
\* position before the furthest.
C8_Witness ==
    /\ IsUnified /\ ~ctx.success /\ Len(obs.errTrace) >= 2
    /\ \E k \in DOMAIN ctx.failures : ctx.failures[k].pos < ctx.errorPos

\* C9: when a unified parse of a known rule fails, expected holds the
\* description of a failing leaf; for <r> on "TRACE" error_pos is 0 and
\* expected names the leading terminal of one of the branches.
C9_ExpectedNamesLeaf ==
    /\ IsUnified /\ Found /\ ~ctx.success =>
          ctx.expected # <<>> /\ ctx.expected[1] \in LeafTags
    /\ IsUnified /\ Found /\ call.name = Str(<<"<","r",">">>)
                 /\ call.input = Str(<<"T","R","A","C","E">>) =>
          /\ ~ctx.success /\ ctx.errorPos = 0
          /\ ctx.expected \in {<<"terminal", Str(<<"G","E","T">>)>>,
                               <<"terminal", Str(<<"P","O","S","T">>)>>,
                               <<"terminal", Str(<<"P","I","N","G">>)>>}

\* C10: a parse with a rule name that is not in the grammar returns no
\* tree and consumed = 0 (legacy), or success = false, no tree,
\* consumed = 0, error_pos = 0 and an expected naming the missing rule
\* (unified), and leaves the grammar as it was.
C10_UnknownRule ==
    [][ (call'.op \in {"parse", "parseCtx"} /\ getRule(rules, call'.name) = 0) =>
          /\ rules' = rules /\ heap' = heap /\ interner' = interner
          /\ pc' = "ready"
          /\ call'.op = "parse" => legacyAst'.null /\ consumed' = 0
          /\ call'.op = "parseCtx" =>
                /\ ~ctx'.success /\ ctx'.ast.null
                /\ ctx'.consumed = 0 /\ ctx'.errorPos = 0
                /\ ctx'.expected = <<"rule not found", call'.name>>
                /\ ctx'.expected[1] \notin LeafTags ]_vars

\* A parse of a name the grammar, which has rules, does not define.
C10_Witness ==
    (IsLegacy \/ IsUnified) /\ ~Found /\ rules # <<>>

\* What the last parse call would have returned on a BNFParser newly
\* constructed on the current grammar.
FreshParser ==
    RunMatcher(getRule(rules, call.name), call.input, call.op = "parseCtx", TRUE, ResetCtx, <<>>)

\* C11: the success flag, consumed count and tree of a parse call are those
\* a newly constructed parser returns on the same grammar, whatever parse
\* and add_rule calls were made before.
C11_MatcherPure ==
    /\ IsLegacy /\ Found =>
          /\ legacyAst = LegacyReturn(FreshParser, TRUE)
          /\ consumed = LegacyConsumed(FreshParser, TRUE, 0)
    /\ IsUnified /\ Found =>
          /\ ctx.success = UnifiedReturn(FreshParser).success
          /\ ctx.consumed = UnifiedReturn(FreshParser).consumed
          /\ ctx.ast = UnifiedReturn(FreshParser).ast

\* The concatenation of the matched texts of the nodes ns.
RECURSIVE Joined(_)
Joined(ns) == IF ns = <<>> THEN <<>> ELSE Head(ns).matched \o Joined(Tail(ns))

\* Node n is the tree of a match of expression e: a leaf for a Terminal,
\* CharRange or CharClass; one child per child of a Sequence, in order; one
\* non-empty child per iteration of a Repeat; one child for a Symbol, an
\* Alternative and a matched Optional; the matched text of a composite is
\* the concatenation of its children's.
RECURSIVE Mirrors(_, _)
Mirrors(e, n) ==
    /\ e # 0
    /\ ~n.null
    /\ LET x == heap[e]
           kids == n.children
       IN  CASE x.type \in {"EXPR_TERMINAL", "EXPR_CHAR_RANGE", "EXPR_CHAR_CLASS"} ->
                    kids = <<>>
             [] x.type = "EXPR_SYMBOL" ->
                    /\ Len(kids) = 1 /\ n.matched = Joined(kids)
                    /\ getRule(rules, x.value) # 0
                    /\ Mirrors(rules[getRule(rules, x.value)].rootExpr, kids[1])
             [] x.type = "EXPR_SEQUENCE" ->
                    /\ Len(kids) = Len(x.children) /\ n.matched = Joined(kids)
                    /\ \A k \in DOMAIN kids : Mirrors(x.children[k], kids[k])
             [] x.type = "EXPR_ALTERNATIVE" ->
                    /\ Len(kids) = 1 /\ n.matched = Joined(kids)
                    /\ \E k \in DOMAIN x.children : Mirrors(x.children[k], kids[1])
             [] x.type = "EXPR_OPTIONAL" ->
                    /\ Len(kids) <= 1 /\ n.matched = Joined(kids)
                    /\ \A k \in DOMAIN kids : Mirrors(x.children[1], kids[k])
             [] x.type = "EXPR_REPEAT" ->
                    /\ n.matched = Joined(kids)
                    /\ \A k \in DOMAIN kids :
                          kids[k].matched # <<>> /\ Mirrors(x.children[1], kids[k])
             [] OTHER -> FALSE

\* C12: on success the tree returned is the tree of a match of the start
\* rule's root expression, node for node.
C12_TreeMirrorsGraph ==
    /\ IsLegacy /\ Found /\ ~legacyAst.null =>
          Mirrors(rules[getRule(rules, call.name)].rootExpr, legacyAst)
    /\ IsUnified /\ Found /\ ctx.success =>
          Mirrors(rules[getRule(rules, call.name)].rootExpr, ctx.ast)

\* ------------------------------------------------------------------------
\* Properties of the grammar builder
\* ------------------------------------------------------------------------

\* The text contains the three bytes `::=` somewhere.
HasSep(text) ==
    \E i \in 1..(Len(text) - 2) : text[i] = 58 /\ text[i + 1] = 58 /\ text[i + 2] = 61

\* The names looked up: those of the rules of rs, those given to parse, and
\* two that may never be defined.
LookupNames(rs) ==
    {rs[i].name : i \in DOMAIN rs} \cup RuleNames \cup {Str(<<"<","d",">">>), Str(<<"<","n",">">>)}

\* get_rule answers with the earliest rule of the name, or with none.
FirstMatch(rs, name) ==
    LET i == getRule(rs, name)
    IN  IF \E j \in DOMAIN rs : rs[j].name = name
        THEN /\ i \in DOMAIN rs
             /\ rs[i].name = name
             /\ \A j \in 1..(i - 1) : rs[j].name # name
        ELSE i = 0

\* One step of the program: rules are only appended, an add_rule of a text
\* with a separator appends one even when the name is already defined, and
\* no name that resolved resolves differently afterwards.
LookupStable ==
    /\ Len(rules') >= Len(rules) /\ SubSeq(rules', 1, Len(rules)) = rules
    /\ call'.op = "addRule" /\ HasSep(call'.name) /\ pc' = "ready" =>
          Len(rules') = Len(rules) + 1
    /\ \A name \in LookupNames(rules') :
          getRule(rules, name) # 0 =>
              /\ getRule(rules', name) = getRule(rules, name)
              /\ rules'[getRule(rules', name)] = rules[getRule(rules, name)]

\* C13: get_rule(name) returns the earliest-added rule of that name or none;
\* duplicate names are accepted; a later add_rule never changes what a name
\* that already resolved resolves to.
C13_FirstMatchLookup ==
    /\ [](\A name \in LookupNames(rules) : FirstMatch(rules, name))
    /\ [][LookupStable]_vars

\* Two rules of one name with different bodies, the first one answering.
C13_Witness ==
    /\ Len(rules) = 2
    /\ rules[1].name = rules[2].name
    /\ rules[1].rootExpr # rules[2].rootExpr
    /\ getRule(rules, rules[2].name) = 1

\* C14: add_rule on a text without `::=` writes a diagnostic and leaves the
\* grammar as it was: no rule appended, no expression allocated, every
\* lookup answered as before.
C14_NoSeparatorNoRule ==
    [][call'.op = "addRule" /\ ~HasSep(call'.name) =>
          /\ diag' # <<>>
          /\ rules' = rules
          /\ heap' = heap
          /\ \A name \in LookupNames(rules) : getRule(rules', name) = getRule(rules, name)]_vars

\* A text without separator was given to a grammar that already had a rule.
C14_Witness ==
    call.op = "addRule" /\ ~HasSep(call.name) /\ diag # <<>> /\ rules # <<>>

\* The expressions reachable from expression a.
RECURSIVE Nodes(_)
Nodes(a) ==
    IF a = 0 THEN {}
    ELSE {a} \cup UNION {Nodes(heap[a].children[k]) : k \in DOMAIN heap[a].children}

\* The expressions reachable from a rule.
RuleNodes == UNION {Nodes(rules[i].rootExpr) : i \in DOMAIN rules}

\* C19: every CharRange reachable from a rule has start <= end.
C19_RangeOrdered ==
    \A a \in RuleNodes : heap[a].type = "EXPR_CHAR_RANGE" => heap[a].start <= heap[a].end

\* C20: every Terminal reachable from a rule has a non-empty literal.
C20_TerminalNonEmpty ==
    \A a \in RuleNodes : heap[a].type = "EXPR_TERMINAL" => heap[a].value # <<>>


\* The tokens repeated next() delivers from cursor pos on, up to the end of
\* the text or a token that does not move the cursor.
RECURSIVE TokensFrom(_, _)
TokensFrom(text, pos) ==
    IF TokNext(text, pos).tok.type = "TOK_END" \/ TokNext(text, pos).pos = pos
    THEN <<>>
    ELSE <<TokNext(text, pos).tok>> \o TokensFrom(text, TokNext(text, pos).pos)

\* The tokens of the right-hand side of a rule text that has a separator.
BodyTokens(ruleText) ==
    TokensFrom(Substr(ruleText, FindSep(ruleText) + 3, Len(ruleText) - (FindSep(ruleText) + 3)), 0)

\* The rule the last add_rule appended.
LastRule == rules[Len(rules)]

\* The last call was an add_rule of a text with a separator, and it returned.
Added == call.op = "addRule" /\ pc = "ready" /\ HasSep(call.name)

IsAtom(t) == t.type \in {"TOK_TERMINAL", "TOK_HEX"}

\* The value of a string of hex digits, modulo 256.
RECURSIVE RefHex(_)
RefHex(ds) ==
    IF ds = <<>> THEN 0
    ELSE (RefHex(SubSeq(ds, 1, Len(ds) - 1)) * 16 + HexDigit(ds[Len(ds)])) % 256

\* The byte an atom stands for: the first byte of a terminal (zero when it
\* is empty), the hex digits after the prefix as a number modulo 256.
RefByte(t) ==
    IF t.type = "TOK_TERMINAL"
    THEN IF t.value = <<>> THEN 0 ELSE t.value[1]
    ELSE RefHex(SubSeq(t.value, 3, Len(t.value)))

\* The bytes listed by the tokens of a class from the i-th on: each atom,
\* and every byte between the two bounds of each range, in either order.
RECURSIVE Listed(_, _)
Listed(toks, i) ==
    IF i > Len(toks) THEN {}
    ELSE IF ~IsAtom(toks[i]) THEN Listed(toks, i + 1)
    ELSE IF i + 2 <= Len(toks) /\ toks[i + 1].type = "TOK_ELLIPSIS" /\ IsAtom(toks[i + 2])
    THEN {b \in 0..255 : \/ RefByte(toks[i]) <= b /\ b <= RefByte(toks[i + 2])
                         \/ RefByte(toks[i + 2]) <= b /\ b <= RefByte(toks[i])}
         \cup Listed(toks, i + 3)
    ELSE {RefByte(toks[i])} \cup Listed(toks, i + 1)

\* The tokens are one parenthesised class: atoms and ranges, after an
\* optional caret.
IsClassBody(toks) ==
    /\ Len(toks) >= 2
    /\ toks[1].type = "TOK_LPAREN"
    /\ toks[Len(toks)].type = "TOK_RPAREN"
    /\ \A i \in 2..(Len(toks) - 1) :
          \/ IsAtom(toks[i])
          \/ i = 2 /\ toks[i].type = "TOK_CARET"
          \/ /\ toks[i].type = "TOK_ELLIPSIS"
             /\ 2 < i /\ i + 1 < Len(toks)
             /\ IsAtom(toks[i - 1]) /\ IsAtom(toks[i + 1])

\* The set a class denotes: the bytes listed, or all other bytes when the
\* class begins with a caret.
ClassSet(toks) ==
    IF toks[2].type = "TOK_CARET" THEN (0..255) \ Listed(toks, 3) ELSE Listed(toks, 2)

\* C18: the bitmap stored for a parenthesised class holds exactly the bytes
\* listed, a range with start > end counting as the swapped range, and
\* exactly the complement of that set when the class begins with `^`.
C18_ClassBitmapExact ==
    Added /\ IsClassBody(BodyTokens(call.name)) =>
        /\ heap[LastRule.rootExpr].type = "EXPR_CHAR_CLASS"
        /\ heap[LastRule.rootExpr].charBitmap = ClassSet(BodyTokens(call.name))

\* The class ( ^ 'b' ... 'a' 0x0A ) was added and stored as every byte but
\* 'a', 'b' and the newline.
C18_Witness ==
    /\ Added /\ call.name = RuleQ
    /\ heap[LastRule.rootExpr].charBitmap = (0..255) \ {10, 97, 98}


Openers == {"TOK_LBRACE", "TOK_LBRACKET", "TOK_LPAREN"}
Closers == {"TOK_RBRACE", "TOK_RBRACKET", "TOK_RPAREN"}

\* The number of brackets open before the i-th token, counted from lo.
Depth(toks, lo, i) ==
    Cardinality({j \in lo..(i - 1) : toks[j].type \in Openers})
    - Cardinality({j \in lo..(i - 1) : toks[j].type \in Closers})

\* Every bracket of the tokens is closed, and none closed before it opened.
Balanced(toks) ==
    /\ Depth(toks, 1, Len(toks) + 1) = 0
    /\ \A i \in 1..Len(toks) : Depth(toks, 1, i + 1) >= 0

\* The n-th smallest element of a set of numbers.
Nth(S, n) == CHOOSE x \in S : Cardinality({y \in S : y < x}) = n - 1

\* The pipes of toks[lo..hi] outside every bracket.
TopPipes(toks, lo, hi) ==
    {i \in lo..hi : toks[i].type = "TOK_PIPE" /\ Depth(toks, lo, i) = 0}

\* Where the terms of the sequence toks[lo..hi] begin: outside every
\* bracket, and neither the ellipsis of a range nor its second bound.
TermStarts(toks, lo, hi) ==
    {i \in lo..hi : /\ Depth(toks, lo, i) = 0
                    /\ toks[i].type # "TOK_ELLIPSIS"
                    /\ ~(i > lo /\ toks[i - 1].type = "TOK_ELLIPSIS")}

\* The last token of the n-th of the pieces that the positions of S cut
\* toks[lo..hi] into, a piece beginning at each position of S.
PieceEnd(S, n, hi) == IF n = Cardinality(S) THEN hi ELSE Nth(S, n + 1) - 1

RECURSIVE ExprShape(_, _, _, _)
RECURSIVE SeqShape(_, _, _, _)
RECURSIVE TermShape(_, _, _, _)

\* Tree t is what the body toks[lo..hi] denotes: an Alternative with one
\* child per pipe-separated sequence, in order, when there are two or
\* more, the sequence itself when there is one.
ExprShape(t, toks, lo, hi) ==
    IF TopPipes(toks, lo, hi) = {}
    THEN SeqShape(t, toks, lo, hi)
    ELSE /\ t.type = "EXPR_ALTERNATIVE"
         /\ Len(t.children) = Cardinality(TopPipes(toks, lo, hi)) + 1
         /\ \A n \in 1..Len(t.children) :
               SeqShape(t.children[n], toks,
                        IF n = 1 THEN lo ELSE Nth(TopPipes(toks, lo, hi), n - 1) + 1,
                        IF n = Len(t.children) THEN hi ELSE Nth(TopPipes(toks, lo, hi), n) - 1)

\* Tree t is what the sequence toks[lo..hi] denotes: a Sequence with one
\* child per term, in order, when there are two or more, the term itself
\* when there is one, nothing when there is none.
SeqShape(t, toks, lo, hi) ==
    IF TermStarts(toks, lo, hi) = {} THEN t = NullExpr
    ELSE IF Cardinality(TermStarts(toks, lo, hi)) = 1 THEN TermShape(t, toks, lo, hi)
    ELSE /\ t.type = "EXPR_SEQUENCE"
         /\ Len(t.children) = Cardinality(TermStarts(toks, lo, hi))
         /\ \A n \in 1..Len(t.children) :
               TermShape(t.children[n], toks, Nth(TermStarts(toks, lo, hi), n),
                         PieceEnd(TermStarts(toks, lo, hi), n, hi))

\* Tree t is what the term toks[lo..hi] denotes: a Repeat of the body
\* between braces, an Optional of the body between brackets, each with one
\* child; a class, a range, a symbol or a terminal.
TermShape(t, toks, lo, hi) ==
    IF toks[lo].type = "TOK_LBRACE"
    THEN /\ t.type = "EXPR_REPEAT" /\ Len(t.children) = 1 /\ toks[hi].type = "TOK_RBRACE"
         /\ ExprShape(t.children[1], toks, lo + 1, hi - 1)
    ELSE IF toks[lo].type = "TOK_LBRACKET"
    THEN /\ t.type = "EXPR_OPTIONAL" /\ Len(t.children) = 1 /\ toks[hi].type = "TOK_RBRACKET"
         /\ ExprShape(t.children[1], toks, lo + 1, hi - 1)
    ELSE IF toks[lo].type = "TOK_LPAREN" THEN t.type = "EXPR_CHAR_CLASS" /\ t.children = <<>>
    ELSE IF hi = lo + 2 THEN t.type = "EXPR_CHAR_RANGE" /\ t.children = <<>>
    ELSE IF toks[lo].type = "TOK_SYMBOL"
    THEN t.type = "EXPR_SYMBOL" /\ t.value = toks[lo].value /\ t.children = <<>>
    ELSE t.type = "EXPR_TERMINAL" /\ t.value = toks[lo].value /\ t.children = <<>>

\* The expression tree stored for the rule the last add_rule appended.
LastTree == Tree(heap, LastRule.rootExpr)

\* C17: the builder collapses single-element composites and keeps source
\* order: k >= 2 pipe-separated sequences give an Alternative of k children,
\* one gives the sequence itself; n >= 2 terms give a Sequence of n
\* children, one gives the term itself; braces give a Repeat and brackets
\* an Optional of exactly one child; brackets bind tighter than sequence,
\* sequence tighter than the pipe.
C17_BuilderShape ==
    Added /\ Balanced(BodyTokens(call.name)) =>
        ExprShape(LastTree, BodyTokens(call.name), 1, Len(BodyTokens(call.name)))

\* The rule 'a' { 'b' | 'c' 'd' } [ 'e' ] | 'f' was added: an Alternative
\* of a three-term Sequence and a terminal, the Repeat holding an
\* Alternative whose second child is a Sequence.
C17_Witness ==
    /\ Added /\ call.name = RuleP
    /\ LastTree.type = "EXPR_ALTERNATIVE" /\ Len(LastTree.children) = 2
    /\ LastTree.children[1].type = "EXPR_SEQUENCE" /\ Len(LastTree.children[1].children) = 3
    /\ LastTree.children[1].children[2].type = "EXPR_REPEAT"
    /\ LastTree.children[1].children[2].children[1].type = "EXPR_ALTERNATIVE"
    /\ LastTree.children[1].children[2].children[1].children[2].type = "EXPR_SEQUENCE"
    /\ LastTree.children[1].children[3].type = "EXPR_OPTIONAL"
    /\ LastTree.children[2].type = "EXPR_TERMINAL"

\* ------------------------------------------------------------------------
\* Properties of the tokenizer
\* ------------------------------------------------------------------------

\* C15: peek() returns the token the next call to next() returns and leaves
\* the cursor where it was, so consecutive peeks return the same token and
\* the tokens delivered by next() are those delivered without the peeks.
C15_PeekIsNext ==
    [][/\ tz'.op = "peek" =>
              /\ tz'.pos = tz.pos
              /\ tz'.text = tz.text
              /\ tz.op = "peek" => tz'.tok = tz.tok
       /\ tz'.op = "next" /\ tz.op = "peek" =>
              /\ tz'.tok = tz.tok
              /\ tz'.pos = TokNext(tz.text, tz.pos).pos]_vars

\* next() has delivered a terminal after two peeks at it, past the start of
\* the text.
C15_Witness ==
    tz.op = "next" /\ tz.peeked = 2 /\ tz.tok.type = "TOK_TERMINAL" /\ tz.pos > 3

\* The first position from `from` on that holds a byte of S, the length of
\* the text when there is none.
RefStop(text, from, S) ==
    IF \E i \in from..(Len(text) - 1) : At(text, i) \in S
    THEN CHOOSE i \in from..(Len(text) - 1) :
             At(text, i) \in S /\ \A j \in from..(i - 1) : At(text, j) \notin S
    ELSE IF from > Len(text) THEN from ELSE Len(text)

\* The slice of text from position a up to, not including, position b.
Slice(text, a, b) == [i \in 1..(b - a) |-> text[a + i]]

\* The token type of each single-byte token.
Punct ==
    (123 :> "TOK_LBRACE") @@ (125 :> "TOK_RBRACE") @@ (91 :> "TOK_LBRACKET")
    @@ (93 :> "TOK_RBRACKET") @@ (40 :> "TOK_LPAREN") @@ (41 :> "TOK_RPAREN")
    @@ (94 :> "TOK_CARET") @@ (124 :> "TOK_PIPE")

\* The recognition rules, in the order tried, at position p of text, which
\* holds a byte that is neither space nor tab.
RefRules(text, p) ==
    LET c == At(text, p)
        n == Len(text)
        Closed(q) == IF q < n THEN q + 1 ELSE n
    IN  IF c = 60
        THEN [tok |-> Token("TOK_SYMBOL", Slice(text, p, Closed(RefStop(text, p + 1, {62})))),
              pos |-> Closed(RefStop(text, p + 1, {62}))]
        ELSE IF c \in {39, 34}
        THEN [tok |-> Token("TOK_TERMINAL", Slice(text, p + 1, RefStop(text, p + 1, {c}))),
              pos |-> Closed(RefStop(text, p + 1, {c}))]
        ELSE IF p + 2 < n /\ \A k \in 0..2 : At(text, p + k) = 46
        THEN [tok |-> Token("TOK_ELLIPSIS", <<46, 46, 46>>), pos |-> p + 3]
        ELSE IF c = 48 /\ p + 1 < n /\ At(text, p + 1) \in {120, 88}
        THEN [tok |-> Token("TOK_HEX",
                            Slice(text, p, RefStop(text, p + 2,
                                      (0..255) \ ((48..57) \cup (65..70) \cup (97..102))))),
              pos |-> RefStop(text, p + 2, (0..255) \ ((48..57) \cup (65..70) \cup (97..102)))]
        ELSE IF c \in DOMAIN Punct
        THEN [tok |-> Token(Punct[c], <<c>>), pos |-> p + 1]
        ELSE [tok |-> Token("TOK_WORD",
                            Slice(text, p, RefStop(text, p,
                                      {32, 9, 10, 11, 12, 13} \cup DOMAIN Punct \cup {46}))),
              pos |-> RefStop(text, p, {32, 9, 10, 11, 12, 13} \cup DOMAIN Punct \cup {46})]

\* The token the recognition rules define at cursor pos0, and the cursor
\* after it: spaces and tabs skipped, end at the end of the text.
RefToken(text, pos0) ==
    IF RefStop(text, pos0, (0..255) \ {32, 9}) >= Len(text)
    THEN [tok |-> Token("TOK_END", <<>>), pos |-> RefStop(text, pos0, (0..255) \ {32, 9})]
    ELSE RefRules(text, RefStop(text, pos0, (0..255) \ {32, 9}))

C28_TokenizerProgress ==
    [][tz'.op = "next" /\ tz'.tok.type # "TOK_END" => tz'.pos > tz.pos]_vars

\* C27: when a unified parse fails, ctx.consumed is the furthest input
\* position the parse reached, which is the position of the furthest
\* failure the context recorded.
C27_FailureConsumedFurthest ==
    IsUnified /\ Found /\ ~ctx.success => ctx.consumed = ctx.errorPos

\* What the last parse call would have done in the other shape: the legacy
\* call with a context, the unified call without one.
OtherShape ==
    RunMatcher(getRule(rules, call.name), call.input, call.op = "parse", TRUE, ResetCtx, firstCache)

\* C29: legacy parse returns a tree iff unified parse sets success, and then
\* both report the same consumed count and trees with the same matched
\* text.
C29_ShapesAgree ==
    /\ IsLegacy /\ Found =>
          /\ ~legacyAst.null <=> UnifiedReturn(OtherShape).success
          /\ ~legacyAst.null =>
                /\ consumed = UnifiedReturn(OtherShape).consumed
                /\ ~UnifiedReturn(OtherShape).ast.null
                /\ legacyAst.matched = UnifiedReturn(OtherShape).ast.matched
    /\ IsUnified /\ Found =>
          /\ ctx.success <=> ~LegacyReturn(OtherShape, TRUE).null
          /\ ctx.success =>
                /\ ctx.consumed = LegacyConsumed(OtherShape, TRUE, 0)
                /\ ~ctx.ast.null
                /\ ctx.ast.matched = LegacyReturn(OtherShape, TRUE).matched

\* ------------------------------------------------------------------------
\* Properties of the matcher's expression kinds
\* ------------------------------------------------------------------------

\* The last call was a parse of a rule of the grammar, and it returned.
Parsed == pc = "ready" /\ call.op \in {"parse", "parseCtx"} /\ Found

\* The state a matcher function is entered with in the last parse call.
Entry == MatchState(call.op = "parseCtx", TRUE, ResetCtx, firstCache)

\* C21: matching a Terminal at position p succeeds iff the literal's bytes
\* are there, the literal being the content the tokenizer produced for the
\* rule text; it then consumes len(literal) bytes and the node's matched
\* text is the literal.
C21_TerminalMatchesLiteral ==
    Parsed =>
        \A a \in RuleNodes, p \in 0..Len(call.input) :
            heap[a].type = "EXPR_TERMINAL" /\ heap[a].value # <<>> =>
                /\ parseTerminal(a, call.input, p, Entry).status = "ok"
                      <=> /\ p + Len(heap[a].value) <= Len(call.input)
                          /\ Slice(call.input, p, p + Len(heap[a].value)) = heap[a].value
                /\ parseTerminal(a, call.input, p, Entry).status = "ok" =>
                      /\ parseTerminal(a, call.input, p, Entry).pos = p + Len(heap[a].value)
                      /\ parseTerminal(a, call.input, p, Entry).node.matched = heap[a].value

\* C22: a failed match consumes nothing: whenever the matcher returns
\* failure for an expression of any kind, the null expression included,
\* entered at any position, the position is the one on entry and no tree
\* is output.
C22_FailureConsumesNothing ==
    Parsed =>
        \A a \in RuleNodes \cup {0}, p \in 0..Len(call.input) :
            parseExpression(a, call.input, p, Entry, {}).status = "fail" =>
                /\ parseExpression(a, call.input, p, Entry, {}).pos = p
                /\ parseExpression(a, call.input, p, Entry, {}).node.null

\* <v> ::= 'a' 'b' | 'ab' | 'a' was parsed on "a": the Sequence matched its
\* first child, failed at its second at position 1 and was rolled back, so
\* that the third branch matched from position 0.
C22_Witness ==
    /\ Parsed /\ call.op = "parseCtx"
    /\ call.name = Str(<<"<","v",">">>) /\ call.input = Str(<<"a">>)
    /\ ctx.success /\ ctx.consumed = 1
    /\ ctx.failures # <<>> /\ ctx.failures[1].pos = 1

\* What branch k of Alternative a does when tried at position p.
Branch(a, k, p) == parseExpression(heap[a].children[k], call.input, p, Entry, {})

\* The branches of Alternative a that match at position p.
Matching(a, p) == {k \in DOMAIN heap[a].children : Branch(a, k, p).status = "ok"}

\* Branch k reaches the greatest end position of the matching branches and
\* is the earliest in the rule text to do so.
EarliestLongest(a, k, p) ==
    /\ k \in Matching(a, p)
    /\ \A j \in Matching(a, p) : Branch(a, j, p).pos <= Branch(a, k, p).pos
    /\ \A j \in Matching(a, p) : j < k => Branch(a, j, p).pos < Branch(a, k, p).pos

Undefined(a) == heap[a].type = "EXPR_SYMBOL" /\ getRule(rules, heap[a].value) = 0

\* What the matcher reports for an undefined symbol.
UndefinedSymbol(name) == <<"symbol undefined", name>>

\* C24: matching a Symbol that resolves to no rule fails without consuming
\* and without a crash, and a unified parse reports it as
\* "symbol <name> (undefined)" at the position where the symbol was
\* required, wherever the Symbol occurs: the report the matcher makes when
\* it tries every branch is the report the parse makes.
C24_UndefinedSymbolReported ==
    /\ Parsed =>
          \A a \in RuleNodes, p \in 0..Len(call.input) :
              Undefined(a) =>
                  /\ parseExpression(a, call.input, p, Entry, {}).status = "fail"
                  /\ parseExpression(a, call.input, p, Entry, {}).pos = p
                  /\ call.op = "parseCtx" =>
                        /\ parseExpression(a, call.input, p, Entry, {}).st.ctx.errorPos = p
                        /\ parseExpression(a, call.input, p, Entry, {}).st.ctx.expected
                              = UndefinedSymbol(heap[a].value)
    /\ IsUnified /\ Found /\ Unpruned.status = "fail"
       /\ (\E a \in RuleNodes :
             Undefined(a) /\ UnifiedReturn(Unpruned).expected = UndefinedSymbol(heap[a].value))
       => /\ ~ctx.success
          /\ ctx.consumed = 0
          /\ ctx.errorPos = UnifiedReturn(Unpruned).errorPos
          /\ ctx.expected = UnifiedReturn(Unpruned).expected

\* Expression a has a missing (null) child.
NullChild(a) == \E k \in DOMAIN heap[a].children : heap[a].children[k] = 0

\* The last call was a parse of a rule that exists.
Called == call.op \in {"parse", "parseCtx"} /\ Found

\* C25: a match that reaches a null child never dereferences it: matching
\* a missing root is a failure that a unified parse describes as
\* "null expression", and matching an expression with a missing child ends
\* as a success or a failure, never as a crash.
C25_NullChildIsFailure ==
    Called =>
        /\ \A p \in 0..Len(call.input) :
              /\ parseExpression(0, call.input, p, Entry, {}).status = "fail"
              /\ call.op = "parseCtx" =>
                    parseExpression(0, call.input, p, Entry, {}).st.ctx.expected
                        = <<"null expression">>
        /\ \A a \in RuleNodes, p \in 0..Len(call.input) :
              NullChild(a) =>
                  parseExpression(a, call.input, p, Entry, {}).status \in {"ok", "fail"}

\* C26: computeFirst terminates for every grammar, rules that reference
\* themselves through Symbol nodes included: with no missing child to
\* dereference, the FIRST computation of every expression of the grammar
\* returns.
C26_ComputeFirstTerminates ==
    (\A a \in RuleNodes : ~NullChild(a)) =>
        \A a \in RuleNodes : ~computeFirst(a, firstCache, {}).crash

\* Region r lies entirely inside one block of the arena.
InsideBlock(r) ==
    \E i \in DOMAIN arena.blocks :
        /\ arena.blocks[i].data # 0
        /\ arena.blocks[i].data <= r.addr
        /\ r.addr + r.size <= arena.blocks[i].data + arena.blocks[i].size

\* Region r starts at an address aligned to max(alignment, pointer size).
AlignedRegion(r) == r.addr % (IF r.alignment > PtrSize THEN r.alignment ELSE PtrSize) = 0

\* Regions r and s share no byte.
Disjoint(r, s) == r.addr + r.size <= s.addr \/ s.addr + s.size <= r.addr

\* Where the request would end in block blk, in unbounded arithmetic.
RequestEnd(blk, size, alignment) ==
    LET al   == IF alignment > PtrSize THEN alignment ELSE PtrSize
        curr == blk.data + blk.used
    IN  ((curr + ((al - (curr % al)) % al)) - blk.data) + size

\* An allocate that adds a block to an arena that has one found that the
\* aligned request does not fit in the remainder of the last block.
BlockOnlyWhenFull ==
    (arena.blocks # <<>> /\ Len(arena'.blocks) > Len(arena.blocks)) =>
        RequestEnd(arena.blocks[Len(arena.blocks)], arena'.size, arena'.alignment)
            > arena.blocks[Len(arena.blocks)].size

\* The regions returned since the last reset are inside blocks, aligned and
\* pairwise disjoint, and no block is used beyond its size.
ArenaSafe ==
    /\ \A k \in DOMAIN arena.regions :
          /\ InsideBlock(arena.regions[k])
          /\ AlignedRegion(arena.regions[k])
          /\ \A j \in DOMAIN arena.regions :
                j # k => Disjoint(arena.regions[j], arena.regions[k])
    /\ \A i \in DOMAIN arena.blocks : arena.blocks[i].used <= arena.blocks[i].size

\* C30: after any sequence of allocate(size, alignment) calls since
\* construction or the last reset, every returned region lies inside one
\* block, is aligned to max(alignment, pointer size) and overlaps no other
\* region returned since the reset, every block has used <= size, and a
\* block is added only when the aligned request does not fit in the
\* remainder of the last block.
C30_ArenaAllocationSafe == []ArenaSafe /\ [][BlockOnlyWhenFull]_vars

====
